---- MODULE Spec2Model ----
(***************************************************************************)
(* A model of the EBookAI PDF -> EPUB conversion core.                     *)
(*                                                                         *)
(*   Spec        ConversionPipeline.convert_pdf_to_epub as a state machine *)
(*               (one action per step of the orchestrator).                *)
(*   SpecQuality ConversionPipeline._calculate_quality_score over bounded  *)
(*               inputs.                                                   *)
(*   SpecPolicy  CalibreFallback.should_trigger_fallback over bounded      *)
(*               inputs.                                                   *)
(*   SpecCalibre CalibreFallback.convert_pdf_to_epub and                   *)
(*               should_trigger_fallback over bounded inputs.              *)
(*   SpecChapters ChapterDetector.detect_chapters over bounded inputs.     *)
(*   SpecEpub    EpubGenerator.create_chapters_from_text_blocks over       *)
(*               bounded inputs.                                           *)
(*   SpecImage   ImageProcessor._determine_optimal_format over bounded     *)
(*               inputs.                                                   *)
(*   SpecProcessor ImageProcessor.process_images and                       *)
(*               get_image_statistics over the conversions of one pipeline.*)
(*   SpecBatch   BatchConversionService: batches, their processing         *)
(*               coroutines and the semaphore of each.                     *)
(*   SpecOneBatchFair  one batch of the service under a fair event loop.   *)
(*   SpecCleanup FileCleanupManager.start, stop and the cleanup loop tasks.*)
(*   SpecWebsocket  the websocket ConnectionManager.                       *)
(*                                                                         *)
(* Scores are held in fifths of a point (Pts(n) = 5 n), so that            *)
(* 0.2 x confidence is an exact integer for every integer confidence.      *)
(* Scan probabilities are held in hundredths (0.3 is 30).                  *)
(* A text is the sequence of its pieces (the text runs joined by " ", or   *)
(* one piece of OCR text); a piece carries its length in characters.       *)
(***************************************************************************)
EXTENDS Integers, Sequences, FiniteSets, TLC

VARIABLES
    config,             \* the configuration imported from config
    calibre_available,  \* CalibreFallback.calibre_available, probed at construction
    pc,                 \* position inside convert_pdf_to_epub
    input,              \* the arguments of the call and what validate_pdf answers
    tracker,            \* the progress-tracker entry of the task
    log,                \* the events of the call, in order
    metadata,           \* locals of _run_custom_pipeline ...
    text_blocks,
    images,
    ocr,
    extracted_text,
    processed_images,
    chapter_structure,
    enhanced_metadata,
    enhanced_chapters,
    completed_stages,
    stage_errors,       \* the stages whose work raised
    output_file,        \* who wrote the file at output_path
    pipeline_result,    \* what _run_custom_pipeline returned
    calibre_calls,      \* calls of CalibreFallback.convert_pdf_to_epub
    spawned,            \* ebook-convert conversion processes run
    calibre_result,     \* what _convert_with_calibre returned
    result,             \* what convert_pdf_to_epub returned
    args,               \* the arguments of a pure function under check
    ret,                \* and the value it returned
    image_processor,    \* the pipeline's ImageProcessor: what it keeps between calls
    active_batches,     \* BatchConversionService.active_batches
    batch_progress,     \* the progress-tracker entries of the batches
    coroutines,         \* the _process_batch_tasks coroutines spawned for a batch
    start_results,      \* how the start_batch_conversion calls for a batch ended
    cleanup_manager,    \* FileCleanupManager: _running and _cleanup_task
    loop_tasks,         \* the _cleanup_loop tasks asyncio.create_task made
    pending_stops,      \* the tasks that suspended stop() calls await
    connection_manager, \* websocket ConnectionManager: connections and subscriptions
    endpoints           \* the websockets whose websocket_endpoint is in its loop

pipeVars == <<config, calibre_available, pc, input, tracker, log, metadata,
              text_blocks, images, ocr, extracted_text, processed_images,
              chapter_structure, enhanced_metadata, enhanced_chapters,
              completed_stages, stage_errors, output_file, pipeline_result,
              calibre_calls, spawned, calibre_result, result>>
fnVars == <<args, ret>>
\* the objects that live longer than one call
batchVars == <<active_batches, batch_progress, coroutines, start_results>>
cleanupVars == <<cleanup_manager, loop_tasks, pending_stops>>
wsVars == <<connection_manager, endpoints>>
svcVars == <<image_processor, batchVars, cleanupVars, wsVars>>
vars == <<pipeVars, fnVars, svcVars>>

\* Python's None, and an exception in place of a value
None == [none |-> TRUE]
Raises == [raises |-> TRUE]
\* a message string, and the output path of the call
Msg(text) == [text |-> text]
OutputPath == [path |-> "output_path"]

(***************************************************************************)
(* Bounds of the model.                                                    *)
(***************************************************************************)
MaxBlocks == 2
MaxScoredImages == 8

\* page counts of a parsed document, and the images it embeds
PageCounts == {1, 2}
ImageCounts == {0, 1}

\* lengths of a text run, around the OCR threshold of 50
BlockLens == {40, 50}
\* lengths of the text OCR recovers
OcrLens == {0, 45, 200}
\* combined confidences of a non-empty chapter structure
DetectedConfidences == {80}
\* values of CALIBRE_QUALITY_THRESHOLD
Thresholds == {60}
\* what a parsed document knows of itself: <<title, author, has_bookmarks>>
MetadataKinds == {<<TRUE, TRUE, TRUE>>, <<TRUE, FALSE, FALSE>>, <<FALSE, FALSE, FALSE>>}

Pts(n) == 5 * n
Min(a, b) == IF a < b THEN a ELSE b
Max(a, b) == IF a > b THEN a ELSE b

RECURSIVE SumLen(_)
SumLen(s) == IF s = <<>> THEN 0 ELSE Head(s).len + SumLen(Tail(s))

\* len(" ".join(pieces))
TextLen(t) == IF t = <<>> THEN 0 ELSE SumLen(t) + Len(t) - 1

Piece(block) == [src |-> "pdf", id |-> block.text, len |-> block.len]

\* " ".join(block.text for block in blocks)
JoinBlocks(blocks) == [i \in DOMAIN blocks |-> Piece(blocks[i])]

RECURSIVE SortedSeq(_)
SortedSeq(S) ==
    IF S = {} THEN <<>>
    ELSE LET m == CHOOSE x \in S : \A y \in S : x <= y
         IN <<m>> \o SortedSeq(S \ {m})

Range(s) == {s[i] : i \in DOMAIN s}

Get(d, k, default) == IF k \in DOMAIN d THEN d[k] ELSE default

(***************************************************************************)
(* utils/progress_tracker.py: the entry of one task.                       *)
(***************************************************************************)
start_task == [status |-> "pending", progress_percent |-> 0]

\* update_progress(task_id, step_index, step_name): total_steps is 5
update_progress(t, step_index) ==
    IF t = None THEN t
    ELSE [status |-> "processing",
          progress_percent |-> Min(95, (step_index * 100) \div 5)]

\* update_progress(task_id, step_index, step_name, progress_percent)
update_progress_to(t, step_index, percent) ==
    IF t = None THEN t
    ELSE [status |-> "processing", progress_percent |-> Max(0, Min(100, percent))]

complete_task(t) ==
    IF t = None THEN t ELSE [status |-> "completed", progress_percent |-> 100]

fail_task(t) ==
    IF t = None THEN t ELSE [t EXCEPT !.status = "failed"]

(***************************************************************************)
(* pdf_parser.py: what parse_pdf and validate_pdf can answer.              *)
(***************************************************************************)
\* _calculate_scan_probability, in hundredths
calculate_scan_probability(blocks, page_count) ==
    IF page_count = 0 THEN 100
    ELSE LET total_text_length == SumLen(blocks)
         IN  IF total_text_length < 50 * page_count THEN 90
             ELSE IF total_text_length < 100 * page_count THEN 60
             ELSE IF total_text_length < 200 * page_count THEN 30
             ELSE 10

\* the text runs come out page after page
BlockSeqs(page_count) ==
    UNION { { s \in [1..n -> BlockLens \X (0..(page_count - 1))] :
                \A i \in 1..n : \A j \in 1..n : i < j => s[i][2] <= s[j][2] }
            : n \in 0..MaxBlocks }

MkBlocks(s) == [i \in DOMAIN s |-> [text |-> i, len |-> s[i][1], page_num |-> s[i][2]]]

ParseResults ==
    UNION { { [metadata |-> [title |-> k[1], author |-> k[2],
                             has_bookmarks |-> k[3], page_count |-> n,
                             scan_probability |->
                                 calculate_scan_probability(MkBlocks(s), n)],
               text_blocks |-> MkBlocks(s),
               images |-> m] :
              k \in MetadataKinds, s \in BlockSeqs(n), m \in ImageCounts }
            : n \in PageCounts }

\* validate_pdf answers a dict; it catches every exception itself
\* (pdf_parser.py:329) and then answers is_valid False with no other key
Validations ==
    { [is_valid |-> TRUE, is_encrypted |-> e] : e \in BOOLEAN } \cup { [is_valid |-> FALSE] }

(***************************************************************************)
(* conversion_pipeline.py: the helpers of ConversionPipeline.              *)
(***************************************************************************)
StageNames == <<"pdf_analysis", "content_extraction", "structure_recognition",
                "ai_enhancement", "epub_generation">>

\* a failure result that keeps the method and the score of a custom run
failure_result_as_custom(error_message) ==
    [success |-> FALSE, output_path |-> None, error_message |-> error_message,
     quality_score |-> Pts(50), method_used |-> "custom", stages_completed |-> <<>>]

create_failure_result(error_message) ==
    [success |-> FALSE, output_path |-> None, error_message |-> error_message,
     quality_score |-> 0, method_used |-> "failed", stages_completed |-> <<>>]

success_result(quality_score, method_used, stages_completed) ==
    [success |-> TRUE, output_path |-> OutputPath, error_message |-> None,
     quality_score |-> quality_score, method_used |-> method_used,
     stages_completed |-> stages_completed]

\* a suitability check that forgets the encryption test
suitable_ignoring_encryption(validation) ==
    IF validation = Raises THEN FALSE
    ELSE Get(validation, "is_valid", FALSE)

\* _is_custom_pipeline_suitable; validation is the answer of validate_pdf,
\* or Raises
is_custom_pipeline_suitable(validation) ==
    IF validation = Raises THEN FALSE
    ELSE IF ~Get(validation, "is_valid", FALSE) THEN FALSE
    ELSE IF Get(validation, "is_encrypted", FALSE) THEN FALSE
    ELSE TRUE

\* _determine_ocr_need: the average is taken per text block
determine_ocr_need(blocks) ==
    IF blocks = <<>> THEN TRUE
    ELSE LET total_text == SumLen(blocks)
         IN  total_text < 50 * Len(blocks)

\* a score that is not capped at 100
quality_score_uncapped(md, structure, nimages) ==
    Pts(50)
    + (IF md.title /\ md.author THEN Pts(10) ELSE 0)
    + (IF md.has_bookmarks THEN Pts(15) ELSE 0)
    + (IF structure # None THEN structure.total_confidence ELSE 0)
    + (IF nimages > 0 THEN Pts(Min(nimages * 2, 15)) ELSE 0)
    + (IF md.scan_probability < 30 THEN Pts(10)
       ELSE IF md.scan_probability < 70 THEN Pts(5) ELSE 0)

\* _calculate_quality_score, in fifths of a point; images is len(images)
calculate_quality_score(md, structure, nimages) ==
    LET s0 == Pts(50)
        s1 == IF md.title /\ md.author THEN s0 + Pts(10) ELSE s0
        s2 == IF md.has_bookmarks THEN s1 + Pts(15) ELSE s1
        s3 == IF structure # None THEN s2 + structure.total_confidence ELSE s2
        s4 == IF nimages > 0 THEN s3 + Pts(Min(nimages * 2, 15)) ELSE s3
        s5 == IF md.scan_probability < 30 THEN s4 + Pts(10)
              ELSE IF md.scan_probability < 70 THEN s4 + Pts(5)
              ELSE s4
    IN  Min(Pts(100), s5)

\* _should_trigger_fallback
should_trigger_fallback_for(r) ==
    IF r.error_message # None THEN TRUE
    ELSE IF r.quality_score < Pts(config.CALIBRE_QUALITY_THRESHOLD) THEN TRUE
    ELSE FALSE

(***************************************************************************)
(* epub_generator.py: EpubGenerator.create_chapters_from_text_blocks.      *)
(***************************************************************************)
PagesOf(blocks) == {blocks[i].page_num : i \in DOMAIN blocks}

MaxOf(S) == CHOOSE x \in S : \A y \in S : y <= x

BlocksOnPage(blocks, p) == SelectSeq(blocks, LAMBDA b : b.page_num = p)

\* for page_num in range(start_page, end_page + 1): the runs of the page
RECURSIVE RunsInRange(_, _, _)
RunsInRange(blocks, start_page, end_page) ==
    IF start_page > end_page THEN <<>>
    ELSE BlocksOnPage(blocks, start_page)
            \o RunsInRange(blocks, start_page + 1, end_page)

\* sorted(chapter_boundaries, key=lambda b: b.page_num), a stable sort
RECURSIVE InsertByPage(_, _)
InsertByPage(b, s) ==
    IF s = <<>> THEN <<b>>
    ELSE IF Head(s).page_num <= b.page_num
         THEN <<Head(s)>> \o InsertByPage(b, Tail(s))
         ELSE <<b>> \o s

RECURSIVE SortByPage(_)
SortByPage(s) ==
    IF s = <<>> THEN <<>>
    ELSE InsertByPage(s[Len(s)], SortByPage(SubSeq(s, 1, Len(s) - 1)))

\* answers the chapters, or raised: max() of no pages is a ValueError
create_chapters_from_text_blocks(blocks, chapter_boundaries) ==
    LET pages == PagesOf(blocks)
    IN  IF chapter_boundaries = <<>>
        THEN [raised |-> FALSE,
              chapters |-> << [chapter_id |-> 1, title |-> "metadata.title",
                               content |-> JoinBlocks(blocks),
                               level |-> 1, page_num |-> 0] >>]
        ELSE IF pages = {}
        THEN [raised |-> TRUE, chapters |-> <<>>]
        ELSE LET sorted_boundaries == SortByPage(chapter_boundaries)
                 end_page(i) ==
                     IF i + 1 <= Len(sorted_boundaries)
                     THEN sorted_boundaries[i + 1].page_num - 1
                     ELSE MaxOf(pages)
             IN  [raised |-> FALSE,
                  chapters |->
                    [i \in 1..Len(sorted_boundaries) |->
                       [chapter_id |-> i,
                        title |-> sorted_boundaries[i].title,
                        content |-> JoinBlocks(RunsInRange(blocks,
                                        sorted_boundaries[i].page_num, end_page(i))),
                        level |-> sorted_boundaries[i].level,
                        page_num |-> sorted_boundaries[i].page_num]]]

(***************************************************************************)
(* chapter_detector.py: what detect_chapters(None, text_blocks, metadata)  *)
(* can answer in stage 3.  It catches every exception itself               *)
(* (chapter_detector.py:106) and then answers the empty structure; with    *)
(* no document object the outline detector finds nothing, and the other    *)
(* detectors place boundaries on pages that hold text runs.                *)
(***************************************************************************)
BoundariesOn(S) ==
    LET pages == SortedSeq(S)
    IN  [i \in DOMAIN pages |->
            [page_num |-> pages[i], title |-> pages[i], level |-> 1]]

ChapterStructures(blocks) ==
    { [chapters |-> <<>>, total_confidence |-> 0] } \cup
    { [chapters |-> BoundariesOn(S), total_confidence |-> c] :
        S \in (SUBSET PagesOf(blocks)) \ {{}}, c \in DetectedConfidences }

(***************************************************************************)
(* calibre_fallback.py: CalibreFallback.                                   *)
(***************************************************************************)
\* an availability that forgets the ENABLE_CALIBRE_FALLBACK switch
is_available_ignoring_switch == calibre_available

is_available == config.ENABLE_CALIBRE_FALLBACK /\ calibre_available

\* what running ebook-convert can do: exit with a code, having written the
\* output file or not; run into the timeout; fail to start
ToolOutcomes ==
    { [kind |-> "exit", returncode |-> rc, wrote |-> w] :
        rc \in {0, 1}, w \in BOOLEAN } \cup
    { [kind |-> "timeout", returncode |-> 1, wrote |-> FALSE],
      [kind |-> "exception", returncode |-> 1, wrote |-> FALSE] }

CalibreResult(success, error_message) ==
    [success |-> success,
     output_path |-> IF success THEN OutputPath ELSE None,
     error_message |-> error_message]

\* a policy that looks at the score before the error of the custom path
should_trigger_fallback_score_first(custom_quality_score, error_occurred, user_requested, pdf_complexity) ==
    IF ~is_available THEN <<FALSE, "Calibre not available">>
    ELSE IF user_requested THEN <<TRUE, "User explicitly requested Calibre conversion">>
    ELSE IF custom_quality_score < Pts(config.CALIBRE_QUALITY_THRESHOLD)
         THEN <<TRUE, "Custom quality score below threshold">>
    ELSE IF error_occurred
         THEN <<TRUE, "Custom pipeline encountered unrecoverable error">>
    ELSE IF pdf_complexity # None /\ pdf_complexity.is_encrypted
         THEN <<TRUE, "PDF is encrypted">>
    ELSE IF pdf_complexity # None /\ pdf_complexity.has_drm
         THEN <<TRUE, "PDF has DRM protection">>
    ELSE IF pdf_complexity # None /\ pdf_complexity.complex_layout
         THEN <<TRUE, "PDF has complex layout requiring specialized handling">>
    ELSE <<FALSE, "Custom conversion quality acceptable">>

\* CalibreFallback.should_trigger_fallback; the score in fifths of a point,
\* pdf_complexity None or the dict of the three hints
should_trigger_fallback(custom_quality_score, error_occurred, user_requested, pdf_complexity) ==
    IF ~is_available THEN <<FALSE, "Calibre not available">>
    ELSE IF user_requested THEN <<TRUE, "User explicitly requested Calibre conversion">>
    ELSE IF error_occurred
         THEN <<TRUE, "Custom pipeline encountered unrecoverable error">>
    ELSE IF custom_quality_score < Pts(config.CALIBRE_QUALITY_THRESHOLD)
         THEN <<TRUE, "Custom quality score below threshold">>
    ELSE IF pdf_complexity # None /\ Get(pdf_complexity, "is_encrypted", FALSE)
         THEN <<TRUE, "PDF is encrypted">>
    ELSE IF pdf_complexity # None /\ Get(pdf_complexity, "has_drm", FALSE)
         THEN <<TRUE, "PDF has DRM protection">>
    ELSE IF pdf_complexity # None /\ Get(pdf_complexity, "complex_layout", FALSE)
         THEN <<TRUE, "PDF has complex layout requiring specialized handling">>
    ELSE <<FALSE, "Custom conversion quality acceptable">>

\* a converter that runs the tool a second time when the first run fails
calibre_runs_with_retry(available, tool) ==
    IF ~available THEN 0
    ELSE IF tool.kind = "exit" /\ tool.returncode = 0 THEN 1
    ELSE 2

\* the conversion processes one call of convert_pdf_to_epub runs
calibre_runs(available, tool) == IF available THEN 1 ELSE 0

\* CalibreFallback.convert_pdf_to_epub; output_exists is output_path.exists()
\* after the run
calibre_convert(available, tool, output_exists) ==
    IF ~available THEN CalibreResult(FALSE, Msg("Calibre is not available"))
    ELSE IF tool.kind = "timeout" THEN CalibreResult(FALSE, Msg("Conversion timed out"))
    ELSE IF tool.kind = "exception" THEN CalibreResult(FALSE, Msg("exception"))
    ELSE IF tool.returncode = 0 /\ output_exists THEN CalibreResult(TRUE, None)
    ELSE CalibreResult(FALSE, Msg("stderr"))

(***************************************************************************)
(* conversion_pipeline.py: ConversionPipeline.convert_pdf_to_epub.         *)
(***************************************************************************)
Configs ==
    [ENHANCED_PDF_CONVERSION : BOOLEAN, ENABLE_CALIBRE_FALLBACK : BOOLEAN,
     CALIBRE_QUALITY_THRESHOLD : Thresholds]

NoOcr == [needed |-> FALSE, invoked |-> FALSE, raised |-> FALSE, ocr_text |-> <<>>]

Started(stage) == [ev |-> "start", stage |-> stage]
Returned(stage) == [ev |-> "return", stage |-> stage]
Ran(stage) == <<Started(stage), Returned(stage)>>

PipeIdle ==
    /\ pc = "idle"
    /\ input = None
    /\ tracker = None
    /\ log = <<>>
    /\ metadata = None
    /\ text_blocks = <<>>
    /\ images = 0
    /\ ocr = NoOcr
    /\ extracted_text = <<>>
    /\ processed_images = 0
    /\ chapter_structure = None
    /\ enhanced_metadata = None
    /\ enhanced_chapters = <<>>
    /\ completed_stages = <<>>
    /\ stage_errors = {}
    /\ output_file = "absent"
    /\ pipeline_result = None
    /\ calibre_calls = 0
    /\ spawned = 0
    /\ calibre_result = None
    /\ result = None

\* ImageProcessor.__init__: nothing stored, no image numbered yet
NewImageProcessor == [processed_images |-> {}, image_counter |-> 0]

\* the long-lived objects as their constructors leave them
\* the batch ids uuid4 hands out
BatchIds == {"b1", "b2"}

\* BatchConversionService.__init__: no batch, nothing spawned, no call made
NewBatchService ==
    /\ active_batches = [b \in BatchIds |-> None]
    /\ batch_progress = [b \in BatchIds |-> None]
    /\ coroutines = [b \in BatchIds |-> <<>>]
    /\ start_results = [b \in BatchIds |-> [started |-> 0, raised |-> 0]]

\* FileCleanupManager.__init__: not running, no task (0 stands for None)
NewCleanupManager ==
    /\ cleanup_manager = [running |-> FALSE, cleanup_task |-> 0]
    /\ loop_tasks = <<>>
    /\ pending_stops = {}

\* ConnectionManager.__init__: no connection, no subscription
NewConnectionManager ==
    /\ connection_manager = [active_connections |-> {},
                             task_subscriptions |-> [t \in {} |-> {}]]
    /\ endpoints = {}

SvcIdle ==
    /\ image_processor = NewImageProcessor
    /\ NewBatchService
    /\ NewCleanupManager
    /\ NewConnectionManager

Init ==
    /\ config \in Configs
    /\ calibre_available \in BOOLEAN
    /\ PipeIdle
    /\ SvcIdle
    /\ args = None
    /\ ret = None

\* convert_pdf_to_epub, lines 105-114: the feature flag, then start_task
Convert(use_calibre, validation) ==
    /\ pc = "idle"
    /\ input' = [use_calibre |-> use_calibre, validation |-> validation]
    /\ IF ~config.ENHANCED_PDF_CONVERSION
       THEN pc' = "legacy" /\ UNCHANGED tracker
       ELSE pc' = "entry" /\ tracker' = start_task
    /\ UNCHANGED <<config, calibre_available, log, metadata, text_blocks, images,
                   ocr, extracted_text, processed_images, chapter_structure,
                   enhanced_metadata, enhanced_chapters, completed_stages,
                   stage_errors, output_file, pipeline_result, calibre_calls,
                   spawned, calibre_result, result, fnVars, svcVars>>

\* _fallback_to_old_implementation: ConversionService.convert_file is a
\* coroutine function called without await, so result.get raises an
\* AttributeError, which the except branch turns into a failure result
LegacyConversion ==
    /\ pc = "legacy"
    /\ result' = create_failure_result(Msg("Legacy conversion failed"))
    /\ pc' = "done"
    /\ UNCHANGED <<config, calibre_available, input, tracker, log, metadata,
                   text_blocks, images, ocr, extracted_text, processed_images,
                   chapter_structure, enhanced_metadata, enhanced_chapters,
                   completed_stages, stage_errors, output_file, pipeline_result,
                   calibre_calls, spawned, calibre_result, fnVars, svcVars>>

\* lines 116-121: straight to Calibre, or into the custom pipeline
EntryDecision ==
    /\ pc = "entry"
    /\ pc' = IF input.use_calibre \/ ~is_custom_pipeline_suitable(input.validation)
             THEN "calibre" ELSE "pdf_analysis"
    /\ UNCHANGED <<config, calibre_available, input, tracker, log, metadata,
                   text_blocks, images, ocr, extracted_text, processed_images,
                   chapter_structure, enhanced_metadata, enhanced_chapters,
                   completed_stages, stage_errors, output_file, pipeline_result,
                   calibre_calls, spawned, calibre_result, result, fnVars, svcVars>>

\* the stage _run_custom_pipeline runs after a stage
NextStage(stage) ==
    CASE stage = "pdf_analysis" -> "content_extraction"
      [] stage = "content_extraction" -> "structure_recognition"
      [] stage = "structure_recognition" -> "ai_enhancement"
      [] stage = "ai_enhancement" -> "epub_generation"
      [] stage = "epub_generation" -> "assemble"

\* _stage_1_pdf_analysis and lines 152-156; parsed is what parse_pdf
\* answers, or Raises
Stage1(parsed) ==
    /\ pc = "pdf_analysis"
    /\ log' = log \o Ran("pdf_analysis")
    /\ IF parsed = Raises
       THEN /\ tracker' = fail_task(update_progress(tracker, 1))
            /\ stage_errors' = stage_errors \cup {"pdf_analysis"}
            /\ pipeline_result' = create_failure_result(Msg("PDF analysis failed"))
            /\ pc' = "decide"
            /\ UNCHANGED <<metadata, text_blocks, images, completed_stages>>
       ELSE /\ tracker' = update_progress(tracker, 1)
            /\ metadata' = parsed.metadata
            /\ text_blocks' = parsed.text_blocks
            /\ images' = parsed.images
            /\ completed_stages' = Append(completed_stages, "pdf_analysis")
            /\ pc' = NextStage("pdf_analysis")
            /\ UNCHANGED <<stage_errors, pipeline_result>>
    /\ UNCHANGED <<config, calibre_available, input, ocr, extracted_text,
                   processed_images, chapter_structure, enhanced_metadata,
                   enhanced_chapters, output_file, calibre_calls, spawned,
                   calibre_result, result, fnVars, svcVars>>

(***************************************************************************)
(* image_processor.py: ImageProcessor._determine_optimal_format.           *)
(* An image is its PIL mode, its size and the number of its distinct       *)
(* colours.                                                                *)
(***************************************************************************)
\* image.getcolors(maxcolors=256): None when the image has more colours
getcolors(image) ==
    IF image.ncolors > 256 THEN None ELSE [count |-> image.ncolors]

\* _is_photograph
is_photograph(image) ==
    IF image.mode \notin {"RGB", "RGBA"} THEN FALSE
    ELSE IF image.width > 500 \/ image.height > 500 THEN TRUE
    ELSE LET colors == getcolors(image)
         IN  colors # None /\ colors.count > 0 /\ colors.count > 100

\* _is_diagram
is_diagram(image) ==
    IF image.width <= 500 /\ image.height <= 500 THEN TRUE
    ELSE LET colors == getcolors(image)
         IN  colors # None /\ colors.count > 0 /\ colors.count <= 16

\* _determine_optimal_format
determine_optimal_format(image, original_format) ==
    IF original_format = "png" /\ image.mode \in {"RGBA", "LA"} THEN "png"
    ELSE IF is_photograph(image) THEN "jpeg"
    ELSE IF is_diagram(image) THEN "png"
    ELSE "jpeg"

(***************************************************************************)
(* image_processor.py: ImageProcessor.process_images and what it keeps.    *)
(***************************************************************************)
MaxImagesPerCall == 2
MaxImageCounter == 4

\* f"img_{self.image_counter:04d}"
ImageId(n) ==
    [prefix |-> "img_",
     digits |-> IF n < 10000
                THEN <<(n \div 1000) % 10, (n \div 100) % 10, (n \div 10) % 10, n % 10>>
                ELSE <<n>>]

\* _process_single_image after the counter was advanced to n: the processed
\* image, or Raises when the data cannot be opened
process_single_image(n, pdf_image, quality_level) ==
    IF pdf_image.image = None THEN Raises
    ELSE [image_id |-> ImageId(n),
          original_format |-> pdf_image.image_format,
          final_format |-> determine_optimal_format(pdf_image.image,
                                                    pdf_image.image_format),
          original_file_size |-> pdf_image.file_size,
          page_num |-> pdf_image.page_num,
          quality_level |-> quality_level]

\* the loop of process_images from the i-th image on
RECURSIVE process_from(_, _, _, _, _)
process_from(processor, done, pdf_images, i, quality_level) ==
    IF i > Len(pdf_images) THEN [processor |-> processor, value |-> done]
    ELSE LET n == processor.image_counter + 1
             one == process_single_image(n, pdf_images[i], quality_level)
         IN  IF one = Raises
             THEN process_from([processor EXCEPT !.image_counter = n],
                               done, pdf_images, i + 1, quality_level)
             ELSE process_from([processed_images |->
                                    processor.processed_images \cup {one},
                                image_counter |-> n],
                               Append(done, one), pdf_images, i + 1, quality_level)

\* process_images: the list it returns and the processor it leaves
process_images(processor, pdf_images, quality_level) ==
    process_from(processor, <<>>, pdf_images, 1, quality_level)

RECURSIVE SumOriginalSize(_)
SumOriginalSize(stored) ==
    IF stored = {} THEN 0
    ELSE LET x == CHOOSE y \in stored : TRUE
         IN  x.original_file_size + SumOriginalSize(stored \ {x})

\* get_image_statistics: {} for an empty store, else the totals and the
\* count of every final format
get_image_statistics(processor) ==
    IF processor.processed_images = {} THEN [empty |-> TRUE]
    ELSE LET stored == processor.processed_images
         IN  [total_images |-> Cardinality(stored),
              total_original_size |-> SumOriginalSize(stored),
              format_counts |->
                  [f \in {x.final_format : x \in stored} |->
                       Cardinality({x \in stored : x.final_format = f})]]

Photograph == [mode |-> "RGB", width |-> 800, height |-> 600, ncolors |-> 257]
Diagram == [mode |-> "L", width |-> 100, height |-> 100, ncolors |-> 2]
PdfImageFileSizes == {120}

\* the images a parsed document hands to stage 2
PdfImages ==
    [page_num : {1}, image_format : {"png", "jpeg"},
     image : {None, Photograph, Diagram}, file_size : PdfImageFileSizes]

PdfImageLists ==
    UNION { [1..n -> PdfImages] : n \in 0..MaxImagesPerCall }

\* what OCRService.process_document answers: the recovered text, or Raises
OcrOutcomes == {Raises} \cup { [text_len |-> n] : n \in OcrLens }

OcrText(o) ==
    IF o.text_len = 0 THEN <<>> ELSE << [src |-> "ocr", id |-> 0, len |-> o.text_len] >>

\* lines 241-252: the text extraction goes on with
working_text(extracted, ocr_needed, ocr_text) ==
    IF ocr_needed /\ ocr_text # <<>> /\ TextLen(ocr_text) > TextLen(extracted)
    THEN ocr_text
    ELSE extracted

\* _stage_2_content_extraction and lines 158-162; o is what OCR answers when
\* it is invoked, pdf_images the images of the document
Stage2(o, pdf_images) ==
    /\ pc = "content_extraction"
    /\ log' = log \o Ran("content_extraction")
    /\ LET ocr_needed == determine_ocr_need(text_blocks)
           extracted == JoinBlocks(text_blocks)
       IN  IF ocr_needed /\ o = Raises
           THEN /\ ocr' = [needed |-> TRUE, invoked |-> TRUE, raised |-> TRUE,
                           ocr_text |-> <<>>]
                /\ tracker' = fail_task(update_progress(update_progress(tracker, 2), 2))
                /\ stage_errors' = stage_errors \cup {"content_extraction"}
                /\ extracted_text' = <<>>
                /\ processed_images' = 0
                /\ UNCHANGED image_processor
           ELSE /\ ocr' = IF ocr_needed
                          THEN [needed |-> TRUE, invoked |-> TRUE, raised |-> FALSE,
                                ocr_text |-> OcrText(o)]
                          ELSE NoOcr
                /\ tracker' = update_progress(tracker, 2)
                /\ extracted_text' =
                       working_text(extracted, ocr_needed,
                                    IF ocr_needed THEN OcrText(o) ELSE <<>>)
                /\ LET out == process_images(image_processor, pdf_images, "standard")
                   IN  /\ processed_images' = Len(out.value)
                       /\ image_processor' = out.processor
                /\ UNCHANGED stage_errors
    /\ completed_stages' = Append(completed_stages, "content_extraction")
    /\ pc' = NextStage("content_extraction")
    /\ UNCHANGED <<config, calibre_available, input, metadata, text_blocks, images,
                   chapter_structure, enhanced_metadata, enhanced_chapters,
                   output_file, pipeline_result, calibre_calls, spawned,
                   calibre_result, result, fnVars, batchVars, cleanupVars, wsVars>>

\* _stage_3_structure_recognition and lines 164-166; detected is what
\* detect_chapters answers, or Raises
structure_recognition(detected) == IF detected = Raises THEN None ELSE detected

Stage3(detected) ==
    /\ pc = "structure_recognition"
    /\ log' = log \o Ran("structure_recognition")
    /\ tracker' = update_progress(tracker, 3)
    /\ chapter_structure' = structure_recognition(detected)
    /\ completed_stages' = Append(completed_stages, "structure_recognition")
    /\ pc' = NextStage("structure_recognition")
    /\ UNCHANGED <<config, calibre_available, input, metadata, text_blocks, images,
                   ocr, extracted_text, processed_images, enhanced_metadata,
                   enhanced_chapters, stage_errors, output_file, pipeline_result,
                   calibre_calls, spawned, calibre_result, result, fnVars, svcVars>>

\* lines 297-312: the chapters stage 4 makes; create_chapters_from_text_blocks
\* is handed an empty list of text runs
stage_4_chapters(text, structure) ==
    IF structure # None
    THEN create_chapters_from_text_blocks(<<>>, structure.chapters)
    ELSE [raised |-> FALSE,
          chapters |-> << [chapter_id |-> 1, title |-> "metadata.title",
                           content |-> text, level |-> 1, page_num |-> 0] >>]

\* _stage_4_ai_enhancement and lines 168-172
Stage4 ==
    /\ pc = "ai_enhancement"
    /\ log' = log \o Ran("ai_enhancement")
    /\ LET made == stage_4_chapters(extracted_text, chapter_structure)
       IN  IF made.raised
           THEN /\ tracker' = fail_task(update_progress(tracker, 4))
                /\ stage_errors' = stage_errors \cup {"ai_enhancement"}
                /\ enhanced_metadata' = None
                /\ enhanced_chapters' = <<>>
           ELSE /\ tracker' = update_progress(tracker, 4)
                /\ enhanced_metadata' = [source |-> "generate_metadata"]
                /\ enhanced_chapters' = made.chapters
                /\ UNCHANGED stage_errors
    /\ completed_stages' = Append(completed_stages, "ai_enhancement")
    /\ pc' = NextStage("ai_enhancement")
    /\ UNCHANGED <<config, calibre_available, input, metadata, text_blocks, images,
                   ocr, extracted_text, processed_images, chapter_structure,
                   output_file, pipeline_result, calibre_calls, spawned,
                   calibre_result, result, fnVars, svcVars>>

\* EpubGenerator.generate_epub: False when anything in it raises, as reading
\* the attributes of a None metadata does; written says whether the file
\* could be written
generate_epub(epub_metadata, written) ==
    IF epub_metadata = None THEN FALSE ELSE written

\* _stage_5_epub_generation and lines 174-180
Stage5(written) ==
    /\ pc = "epub_generation"
    /\ log' = log \o Ran("epub_generation")
    /\ LET success == generate_epub(enhanced_metadata, written)
       IN  IF success
           THEN /\ tracker' = update_progress_to(update_progress(tracker, 4), 5, 100)
                /\ output_file' = "custom"
                /\ completed_stages' = Append(completed_stages, "epub_generation")
                /\ pc' = NextStage("epub_generation")
                /\ UNCHANGED <<stage_errors, pipeline_result>>
           ELSE /\ tracker' = update_progress(tracker, 4)
                /\ stage_errors' = stage_errors \cup {"epub_generation"}
                /\ pipeline_result' =
                       create_failure_result(Msg("EPUB generation failed"))
                /\ pc' = "decide"
                /\ UNCHANGED <<output_file, completed_stages>>
    /\ UNCHANGED <<config, calibre_available, input, metadata, text_blocks, images,
                   ocr, extracted_text, processed_images, chapter_structure,
                   enhanced_metadata, enhanced_chapters, calibre_calls, spawned,
                   calibre_result, result, fnVars, svcVars>>

\* lines 182-206: the quality score and the result of the custom pipeline.
\* len(chapter_structure.chapters) raises when stage 3 answered None; the
\* handler of convert_pdf_to_epub (lines 139-141) then returns a failure
Assemble ==
    /\ pc = "assemble"
    /\ tracker' = complete_task(tracker)
    /\ IF chapter_structure = None
       THEN /\ result' = create_failure_result(Msg("AttributeError"))
            /\ pc' = "done"
            /\ UNCHANGED pipeline_result
       ELSE /\ pipeline_result' =
                success_result(
                    calculate_quality_score(metadata, chapter_structure,
                                            processed_images),
                    "custom", completed_stages)
            /\ pc' = "decide"
            /\ UNCHANGED result
    /\ UNCHANGED <<config, calibre_available, input, log, metadata, text_blocks,
                   images, ocr, extracted_text, processed_images,
                   chapter_structure, enhanced_metadata, enhanced_chapters,
                   completed_stages, stage_errors, output_file, calibre_calls,
                   spawned, calibre_result, fnVars, svcVars>>

\* lines 123-126 and 137: fall back to Calibre, or return the custom result
FallbackDecision ==
    /\ pc = "decide"
    /\ IF ~pipeline_result.success \/ should_trigger_fallback_for(pipeline_result)
       THEN pc' = "calibre" /\ UNCHANGED result
       ELSE pc' = "done" /\ result' = pipeline_result
    /\ UNCHANGED <<config, calibre_available, input, tracker, log, metadata,
                   text_blocks, images, ocr, extracted_text, processed_images,
                   chapter_structure, enhanced_metadata, enhanced_chapters,
                   completed_stages, stage_errors, output_file, pipeline_result,
                   calibre_calls, spawned, calibre_result, fnVars, svcVars>>

\* _convert_with_calibre, lines 362-381: the result made of a CalibreResult
calibre_conversion_result(calibre) ==
    IF calibre.success
    THEN success_result(Pts(75), "calibre", <<"calibre_fallback">>)
    ELSE create_failure_result(Msg("Calibre conversion failed"))

\* a return that gives up as soon as Calibre fails
return_after_calibre_discarding(custom, calibre) ==
    IF custom = None THEN calibre
    ELSE IF calibre.success THEN calibre
    ELSE create_failure_result(Msg("Both custom pipeline and Calibre failed"))

\* lines 118 and 128-135: what convert_pdf_to_epub returns after Calibre ran;
\* custom is the result of the custom pipeline, None when it did not run
return_after_calibre(custom, calibre) ==
    IF custom = None THEN calibre
    ELSE IF calibre.success THEN calibre
    ELSE IF custom.success THEN custom
    ELSE create_failure_result(Msg("Both custom pipeline and Calibre failed"))

\* _convert_with_calibre with CalibreFallback.convert_pdf_to_epub, and the
\* return of convert_pdf_to_epub; tool is what ebook-convert does if it runs
ConvertWithCalibre(tool) ==
    /\ pc = "calibre"
    /\ LET runs == calibre_runs(is_available, tool)
           output_exists == (runs > 0 /\ tool.wrote) \/ output_file # "absent"
           answer == calibre_convert(is_available, tool, output_exists)
           converted == calibre_conversion_result(answer)
       IN  /\ log' = Append(log, [ev |-> "calibre", stage |-> "calibre_fallback"])
           /\ calibre_calls' = calibre_calls + 1
           /\ spawned' = spawned + runs
           /\ output_file' = IF runs > 0 /\ tool.wrote THEN "calibre" ELSE output_file
           /\ tracker' = IF answer.success
                         THEN complete_task(update_progress(tracker, 1))
                         ELSE update_progress(tracker, 1)
           /\ calibre_result' = converted
           /\ result' = return_after_calibre(pipeline_result, converted)
    /\ pc' = "done"
    /\ UNCHANGED <<config, calibre_available, input, metadata, text_blocks, images,
                   ocr, extracted_text, processed_images, chapter_structure,
                   enhanced_metadata, enhanced_chapters, completed_stages,
                   stage_errors, pipeline_result, fnVars, svcVars>>

Next ==
    \/ \E use_calibre \in BOOLEAN, validation \in Validations :
          Convert(use_calibre, validation)
    \/ LegacyConversion
    \/ EntryDecision
    \/ \E parsed \in ParseResults \cup {Raises} : Stage1(parsed)
    \/ \E o \in OcrOutcomes, pdf_images \in [1..images -> PdfImages] :
          Stage2(o, pdf_images)
    \/ \E detected \in ChapterStructures(text_blocks) : Stage3(detected)
    \/ Stage4
    \/ \E written \in BOOLEAN : Stage5(written)
    \/ Assemble
    \/ FallbackDecision
    \/ \E tool \in ToolOutcomes : ConvertWithCalibre(tool)

Spec == Init /\ [][Next]_vars

(***************************************************************************)
(* Properties of convert_pdf_to_epub (specification Spec).                 *)
(***************************************************************************)
StartsOf(stage) == {i \in DOMAIN log : log[i] = Started(stage)}
StartedStages == SelectSeq(log, LAMBDA e : e.ev = "start")
CustomRan == StartedStages # <<>>
AllStagesRan == \A i \in DOMAIN StageNames : StartsOf(StageNames[i]) # {}
IsPrefix(s, t) == Len(s) <= Len(t) /\ \A i \in DOMAIN s : s[i] = t[i]
Called == pc \notin {"idle", "legacy"} /\ config.ENHANCED_PDF_CONVERSION

\* the caller forces Calibre, or validate_pdf reports invalid or encrypted
ExternalForced ==
    \/ input.use_calibre
    \/ ~Get(input.validation, "is_valid", FALSE)
    \/ Get(input.validation, "is_encrypted", FALSE)

\* C1: when the caller forces the external converter, or validation reports
\* the file invalid or encrypted, the call goes straight to the Calibre
\* converter (it is called exactly once by the time the call returns) and no
\* custom stage is ever started.
C1_ShortCircuitToCalibre ==
    (Called /\ ExternalForced) =>
        /\ pc \in {"entry", "calibre", "done"}
        /\ ~CustomRan
        /\ pipeline_result = None
        /\ pc = "done" => (calibre_calls = 1 /\ result = calibre_result)

C1_Witness ==
    /\ Called /\ pc = "done"
    /\ ~input.use_calibre
    /\ Get(input.validation, "is_encrypted", FALSE)
    /\ calibre_calls = 1
    /\ ~CustomRan

\* C2: when the custom path was judged suitable, the external converter has
\* been invoked by the time the call returns whenever the work of a custom
\* stage raised or the quality score of the custom result is below
\* CALIBRE_QUALITY_THRESHOLD.
C2_FallbackOnFailureOrLowScore ==
    (Called /\ pc = "done" /\ ~ExternalForced) =>
        ( ( \/ stage_errors # {}
            \/ /\ pipeline_result # None
               /\ pipeline_result.success
               /\ pipeline_result.quality_score
                      < Pts(config.CALIBRE_QUALITY_THRESHOLD) )
          => calibre_calls >= 1 )

\* C3: when the custom pipeline returned a successful result, the fallback
\* ran and the external converter failed, the call returns the custom result
\* (success, method custom, its output path); and after a custom run a
\* failure is returned only when the custom pipeline failed and the external
\* converter was run and failed too.
C3_CustomResultKept ==
    (Called /\ pc = "done" /\ CustomRan) =>
        /\ ( /\ pipeline_result # None
             /\ pipeline_result.success
             /\ calibre_calls > 0
             /\ ~calibre_result.success )
           => ( /\ result = pipeline_result
                /\ result.success
                /\ result.method_used = "custom"
                /\ result.output_path = OutputPath )
        /\ ~result.success
           => ( /\ pipeline_result # None
                /\ ~pipeline_result.success
                /\ calibre_calls = 1
                /\ ~calibre_result.success )

C3_Witness ==
    /\ Called /\ pc = "done"
    /\ pipeline_result # None
    /\ pipeline_result.success
    /\ calibre_calls = 1
    /\ ~calibre_result.success
    /\ result.method_used = "custom"

\* C4: the call always ends by returning a ConversionResult, whatever stage
\* or converter failed, and a returned failure has success false, an error
\* message, no output path, method 'failed' and quality score 0.
C4_FailureIsAResult ==
    pc = "done" =>
        /\ result # None
        /\ result.success \in BOOLEAN
        /\ ~result.success =>
              /\ result.error_message # None
              /\ result.output_path = None
              /\ result.method_used = "failed"
              /\ result.quality_score = 0
        /\ result.success =>
              /\ result.error_message = None
              /\ result.method_used \in {"custom", "calibre"}

C4_Witness ==
    /\ pc = "done"
    /\ stage_errors # {}
    /\ calibre_calls = 1
    /\ ~result.success
    /\ result.method_used = "failed"

\* C5: the five stages start in the fixed order, each only after the one
\* before it returned, and the stages_completed of a result of the custom
\* pipeline is a prefix of that order that holds only stages whose work did
\* not raise.
C5_OrderedAndHonestStages ==
    /\ IsPrefix([i \in DOMAIN StartedStages |-> StartedStages[i].stage], StageNames)
    /\ \A i \in DOMAIN log :
          log[i].ev = "start" =>
              /\ i + 1 \in DOMAIN log
              /\ log[i + 1] = Returned(log[i].stage)
    /\ pipeline_result # None =>
          /\ IsPrefix(pipeline_result.stages_completed, StageNames)
          /\ Range(pipeline_result.stages_completed) \cap stage_errors = {}

\* C6: in one call the external converter is called at most once and runs
\* its tool at most once, and no custom stage is started twice.
C6_NothingRetried ==
    /\ calibre_calls <= 1
    /\ spawned <= calibre_calls
    /\ \A i \in DOMAIN StageNames : Cardinality(StartsOf(StageNames[i])) <= 1
    /\ calibre_calls = 1 => pc = "done"

C6_Witness ==
    /\ pc = "done"
    /\ AllStagesRan
    /\ calibre_calls = 1
    /\ spawned = 1
    /\ ~calibre_result.success

RECURSIVE ChapterText(_)
ChapterText(chapters) ==
    IF chapters = <<>> THEN <<>>
    ELSE Head(chapters).content \o ChapterText(Tail(chapters))

Contains(t, w) ==
    \E i \in 0..Len(t) :
        i + Len(w) <= Len(t) /\ \A j \in DOMAIN w : t[i + j] = w[j]

\* C7: in every successful custom conversion the content of the chapters
\* handed to EPUB generation contains the working text of the pipeline (the
\* extracted text, or the OCR text that replaced it).
C7_ChaptersCarryWorkingText ==
    (pipeline_result # None /\ pipeline_result.success) =>
        Contains(ChapterText(enhanced_chapters), extracted_text)

ContentExtracted == "content_extraction" \in Range(completed_stages)

\* C8: OCR is invoked only when the average extracted text length per page
\* is below 50; and when OCR answered, the working text is the OCR text
\* exactly when that is strictly longer than the extracted text.
C8_OcrOnlyBelowFiftyPerPage ==
    ContentExtracted =>
        /\ ocr.invoked => SumLen(text_blocks) < 50 * metadata.page_count
        /\ (ocr.invoked /\ ~ocr.raised) =>
              extracted_text =
                  IF TextLen(ocr.ocr_text) > TextLen(JoinBlocks(text_blocks))
                  THEN ocr.ocr_text
                  ELSE JoinBlocks(text_blocks)

(***************************************************************************)
(* SpecQuality: _calculate_quality_score applied to bounded inputs.        *)
(***************************************************************************)
DefaultConfig ==
    [ENHANCED_PDF_CONVERSION |-> TRUE, ENABLE_CALIBRE_FALLBACK |-> TRUE,
     CALIBRE_QUALITY_THRESHOLD |-> CHOOSE t \in Thresholds : TRUE]

\* scan probabilities, in hundredths, on both sides of 0.3 and 0.7
ScanValues == {0, 29, 30, 69, 70, 100}
Confidences == 0..100

QualityInputs ==
    [fn : {"calculate_quality_score"},
     title : BOOLEAN, author : BOOLEAN, has_bookmarks : BOOLEAN,
     structure : {None} \cup [total_confidence : Confidences],
     images : 0..MaxScoredImages,
     scan_probability : ScanValues]

InitQuality ==
    /\ config = DefaultConfig
    /\ calibre_available = TRUE
    /\ PipeIdle
    /\ SvcIdle
    /\ args \in QualityInputs
    /\ ret = None

CalculateQuality ==
    /\ args # None
    /\ args.fn = "calculate_quality_score"
    /\ ret = None
    /\ ret' = [value |->
                 calculate_quality_score(
                     [title |-> args.title, author |-> args.author,
                      has_bookmarks |-> args.has_bookmarks,
                      scan_probability |-> args.scan_probability],
                     args.structure, args.images)]
    /\ UNCHANGED <<pipeVars, args, svcVars>>

NextQuality == CalculateQuality

SpecQuality == InitQuality /\ [][NextQuality]_vars

\* C9: the quality score is min(100, 50 + 10 if title and author are known
\* + 15 if an outline was found + 0.2 x chapter confidence (nothing when the
\* structure is absent) + min(2 x images, 15) + 10 if scan probability < 0.3,
\* else 5 if < 0.7), and so lies in [0, 100]; here in fifths of a point.
C9_QualityScoreFormula ==
    (ret # None /\ args.fn = "calculate_quality_score") =>
        LET known == IF args.title /\ args.author THEN 10 ELSE 0
            outline == IF args.has_bookmarks THEN 15 ELSE 0
            chapters == IF args.structure = None THEN 0
                        ELSE args.structure.total_confidence
            pictures == Min(2 * args.images, 15)
            scan == IF args.scan_probability < 30 THEN 10
                    ELSE IF args.scan_probability < 70 THEN 5 ELSE 0
        IN  /\ ret.value =
                 Min(5 * 100, 5 * (50 + known + outline + pictures + scan) + chapters)
            /\ 0 <= ret.value
            /\ ret.value <= 5 * 100

C9_Witness ==
    /\ ret # None
    /\ args.fn = "calculate_quality_score"
    /\ args.title /\ args.author /\ args.has_bookmarks
    /\ args.structure # None
    /\ args.structure.total_confidence = 100
    /\ args.images = MaxScoredImages
    /\ args.scan_probability = 0
    /\ ret.value = Pts(100)

(***************************************************************************)
(* SpecPolicy: CalibreFallback.should_trigger_fallback applied to bounded  *)
(* inputs.                                                                 *)
(***************************************************************************)
PolicyThresholds == {40, 60}
PolicyScores == {Pts(0), Pts(40), Pts(60) - 1, Pts(60), Pts(60) + 1, Pts(100)}

PolicyInputs ==
    [fn : {"should_trigger_fallback"},
     custom_quality_score : PolicyScores,
     error_occurred : BOOLEAN,
     user_requested : BOOLEAN,
     pdf_complexity :
         {None} \cup [is_encrypted : BOOLEAN, has_drm : BOOLEAN,
                      complex_layout : BOOLEAN]]

InitPolicy ==
    /\ config \in [ENHANCED_PDF_CONVERSION : {TRUE},
                   ENABLE_CALIBRE_FALLBACK : BOOLEAN,
                   CALIBRE_QUALITY_THRESHOLD : PolicyThresholds]
    /\ calibre_available \in BOOLEAN
    /\ PipeIdle
    /\ SvcIdle
    /\ args \in PolicyInputs
    /\ ret = None

ShouldTriggerFallback ==
    /\ args # None
    /\ args.fn = "should_trigger_fallback"
    /\ ret = None
    /\ ret' = [value |->
                 should_trigger_fallback(args.custom_quality_score,
                                         args.error_occurred, args.user_requested,
                                         args.pdf_complexity)]
    /\ UNCHANGED <<pipeVars, args, svcVars>>

NextPolicy == ShouldTriggerFallback

SpecPolicy == InitPolicy /\ [][NextPolicy]_vars

\* the conditions of the policy in the order the claim gives them
PolicyConditions ==
    << <<args.user_requested, "User explicitly requested Calibre conversion">>,
       <<args.error_occurred, "Custom pipeline encountered unrecoverable error">>,
       <<args.custom_quality_score < 5 * config.CALIBRE_QUALITY_THRESHOLD,
         "Custom quality score below threshold">>,
       <<args.pdf_complexity # None /\ args.pdf_complexity.is_encrypted,
         "PDF is encrypted">>,
       <<args.pdf_complexity # None /\ args.pdf_complexity.has_drm,
         "PDF has DRM protection">>,
       <<args.pdf_complexity # None /\ args.pdf_complexity.complex_layout,
         "PDF has complex layout requiring specialized handling">> >>

\* C10: with the fallback available, should_trigger_fallback answers true
\* with the reason of the first condition that holds, in the order user
\* request, custom path error, score below the threshold, encrypted, DRM,
\* complex layout, and false when none holds; score 40 with threshold 60, no
\* request and no error answers true with the below-threshold reason.
C10_FirstMatchingReason ==
    (ret # None /\ args.fn = "should_trigger_fallback" /\ is_available) =>
        LET matching == {i \in DOMAIN PolicyConditions : PolicyConditions[i][1]}
        IN  /\ matching = {} => ret.value[1] = FALSE
            /\ matching # {} =>
                  LET first == CHOOSE i \in matching : \A j \in matching : i <= j
                  IN  ret.value = <<TRUE, PolicyConditions[first][2]>>
            /\ ( /\ args.custom_quality_score = 5 * 40
                 /\ config.CALIBRE_QUALITY_THRESHOLD = 60
                 /\ ~args.user_requested
                 /\ ~args.error_occurred )
               => ret.value = <<TRUE, "Custom quality score below threshold">>

C10_Witness ==
    /\ ret # None
    /\ args.fn = "should_trigger_fallback"
    /\ is_available
    /\ args.custom_quality_score = Pts(40)
    /\ config.CALIBRE_QUALITY_THRESHOLD = 60
    /\ ~args.user_requested
    /\ ~args.error_occurred
    /\ ret.value = <<TRUE, "Custom quality score below threshold">>

(***************************************************************************)
(* SpecCalibre: the public functions of CalibreFallback applied to bounded *)
(* inputs: convert_pdf_to_epub with what ebook-convert does and the file   *)
(* at output_path, and should_trigger_fallback.                            *)
(***************************************************************************)
\* the file at output_path: None when there is none, else its size in bytes
FileStates == {None, [size |-> 0], [size |-> 120]}

CalibreInputs ==
    [fn : {"convert_pdf_to_epub"},
     tool : ToolOutcomes,
     existing : FileStates,
     written : FileStates \ {None}]

\* the file at output_path after the call: the tool's output when it ran and
\* wrote one, else the file that was there
file_after(runs, tool, existing, written) ==
    IF runs > 0 /\ tool.wrote THEN written ELSE existing

InitCalibre ==
    /\ config \in [ENHANCED_PDF_CONVERSION : {TRUE},
                   ENABLE_CALIBRE_FALLBACK : BOOLEAN,
                   CALIBRE_QUALITY_THRESHOLD : PolicyThresholds]
    /\ calibre_available \in BOOLEAN
    /\ PipeIdle
    /\ SvcIdle
    /\ args \in CalibreInputs \cup PolicyInputs
    /\ ret = None

CalibreConvert ==
    /\ args # None
    /\ args.fn = "convert_pdf_to_epub"
    /\ ret = None
    /\ LET runs == calibre_runs(is_available, args.tool)
           file == file_after(runs, args.tool, args.existing, args.written)
       IN  ret' = [value |-> calibre_convert(is_available, args.tool, file # None),
                   runs |-> runs,
                   file |-> file]
    /\ UNCHANGED <<pipeVars, args, svcVars>>

NextCalibre ==
    \/ CalibreConvert
    \/ ShouldTriggerFallback

SpecCalibre == InitCalibre /\ [][NextCalibre]_vars

ConvertReturned == ret # None /\ args.fn = "convert_pdf_to_epub"

\* C11: an external conversion is reported successful exactly when the tool
\* ran and exited with code 0 and the output file exists and is not empty;
\* every other result has success false and no output path.
C11_SuccessIffExitZeroAndNonEmptyOutput ==
    ConvertReturned =>
        /\ ret.value.success <=>
              ( /\ ret.runs = 1
                /\ args.tool.kind = "exit"
                /\ args.tool.returncode = 0
                /\ ret.file # None
                /\ ret.file.size > 0 )
        /\ ~ret.value.success => ret.value.output_path = None

\* C12: when ebook-convert was not found at construction or the fallback is
\* switched off, is_available is false, convert_pdf_to_epub answers a failed
\* result without running the tool, and should_trigger_fallback answers
\* false whatever its arguments.
C12_UnavailableNeverRuns ==
    (~calibre_available \/ ~config.ENABLE_CALIBRE_FALLBACK) =>
        /\ ~is_available
        /\ ConvertReturned =>
              /\ ret.runs = 0
              /\ ~ret.value.success
              /\ ret.value.output_path = None
              /\ ret.file = args.existing
        /\ (ret # None /\ args.fn = "should_trigger_fallback") =>
              ret.value[1] = FALSE

C12_Witness ==
    /\ calibre_available
    /\ ~config.ENABLE_CALIBRE_FALLBACK
    /\ ret # None
    /\ args.fn = "should_trigger_fallback"
    /\ args.user_requested
    /\ ret.value[1] = FALSE

(***************************************************************************)
(* chapter_detector.py: ChapterDetector.                                   *)
(*                                                                         *)
(* A title is the sequence of its words, in lower case (every comparison   *)
(* of titles in the code is made on title.lower()); a combined confidence  *)
(* is the fraction num / den.                                              *)
(***************************************************************************)
ChapterWords == {"chapter", "part", "section"}
NumberTokens == {"1", "2", "12"}
\* what the pattern Page\s*\d+\s*[:\-]?\s* takes after the word page
PageNumberTokens == {"3", "3:"}

RECURSIVE TitleChars(_)
\* len(title)
TitleChars(title) ==
    IF title = <<>> THEN 0
    ELSE IF Len(title) = 1 THEN Len(title[1])
    ELSE Len(title[1]) + 1 + TitleChars(Tail(title))

\* title.isdigit()
IsDigit(title) == Len(title) = 1 /\ title[1] \in NumberTokens

\* re.match(r'^(Chapter|...|Part|...|Section|...)\s*\d+', title, re.IGNORECASE)
HasChapterMarker(title) ==
    Len(title) >= 2 /\ title[1] \in ChapterWords /\ title[2] \in NumberTokens

\* _calculate_bookmark_confidence
calculate_bookmark_confidence(title, level) ==
    LET c0 == 90
        c1 == IF HasChapterMarker(title) THEN c0 + 5 ELSE c0
        c2 == IF TitleChars(title) < 5 THEN c1 - 10 ELSE c1
        c3 == IF level > 2 THEN c2 - 5 ELSE c2
    IN  Max(0, Min(100, c3))

RECURSIVE BookmarksOf(_)
\* the loop of _extract_bookmarks over the items of the outline
BookmarksOf(toc) ==
    IF toc = <<>> THEN <<>>
    ELSE LET item == Head(toc)
             rest == BookmarksOf(Tail(toc))
         IN  IF item.title = <<>> THEN rest
             ELSE IF TitleChars(item.title) < 2 \/ IsDigit(item.title) THEN rest
             ELSE << [page_num |-> item.page - 1,
                      title |-> item.title,
                      confidence |->
                          calculate_bookmark_confidence(item.title, item.level),
                      detection_method |-> "bookmark",
                      level |-> item.level] >> \o rest

\* _extract_bookmarks; pdf_doc is None or a document with its outline, whose
\* get_toc may raise: every exception answers []
extract_bookmarks(pdf_doc) ==
    IF pdf_doc = None THEN <<>>
    ELSE IF pdf_doc.get_toc_raises THEN <<>>
    ELSE BookmarksOf(pdf_doc.toc)

\* _detect_by_font_analysis; found is what the analysis of the fonts does:
\* it raises, or finds candidates
detect_by_font_analysis(has_text, found) ==
    IF ~has_text THEN <<>>
    ELSE IF found.raises THEN <<>>
    ELSE found.candidates

\* _detect_by_page_patterns
detect_by_page_patterns(has_text, found) ==
    IF ~has_text THEN <<>>
    ELSE IF found.raises THEN <<>>
    ELSE found.candidates

\* _detect_by_ai_analysis; found is what the oracle does: it raises, or its
\* answer parses to candidates
detect_by_ai_analysis(ai_service, has_text, found) ==
    IF ~ai_service \/ ~has_text THEN <<>>
    ELSE IF found.raises THEN <<>>
    ELSE found.candidates

\* _titles_similar; threshold in tenths
titles_similar(title1, title2, threshold) ==
    IF title1 = title2 THEN TRUE
    ELSE LET words1 == Range(title1)
             words2 == Range(title2)
         IN  IF words1 = {} \/ words2 = {} THEN FALSE
             ELSE 10 * Cardinality(words1 \cap words2)
                      >= threshold * Cardinality(words1 \cup words2)

Abs(n) == IF n < 0 THEN -n ELSE n

\* _conflicts_with_existing
conflicts_with_existing(chapter, existing) ==
    \E i \in DOMAIN existing :
        \/ /\ chapter.page_num = existing[i].page_num
           /\ titles_similar(chapter.title, existing[i].title, 8)
        \/ /\ Abs(chapter.page_num - existing[i].page_num) <= 2
           /\ titles_similar(chapter.title, existing[i].title, 8)

RECURSIVE AddNonConflicting(_, _)
\* for c in candidates: if not conflicts_with_existing(c, all): all.append(c)
AddNonConflicting(candidates, all_chapters) ==
    IF candidates = <<>> THEN all_chapters
    ELSE AddNonConflicting(Tail(candidates),
            IF conflicts_with_existing(Head(candidates), all_chapters)
            THEN all_chapters
            ELSE Append(all_chapters, Head(candidates)))

\* _clean_chapter_title: a leading "Page N:" is removed
clean_chapter_title(title) ==
    IF Len(title) >= 2 /\ title[1] = "page" /\ title[2] \in PageNumberTokens
    THEN SubSeq(title, 3, Len(title))
    ELSE title

RECURSIVE DedupFrom(_, _, _)
\* the loop of _deduplicate_and_improve
DedupFrom(chapters, seen_titles, improved) ==
    IF chapters = <<>> THEN improved
    ELSE LET chapter == Head(chapters)
             is_duplicate ==
                 \E seen \in seen_titles : titles_similar(chapter.title, seen, 9)
             cleaned == clean_chapter_title(chapter.title)
         IN  IF is_duplicate
             THEN DedupFrom(Tail(chapters), seen_titles, improved)
             ELSE DedupFrom(Tail(chapters), seen_titles \cup {cleaned},
                            Append(improved, [chapter EXCEPT !.title = cleaned]))

deduplicate_and_improve(chapters) == DedupFrom(chapters, {}, <<>>)

\* _combine_detection_methods
combine_detection_methods(bookmark_chapters, font_chapters, pattern_chapters, ai_chapters) ==
    LET a1 == bookmark_chapters
        a2 == AddNonConflicting(font_chapters, a1)
        a3 == AddNonConflicting(pattern_chapters, a2)
        a4 == AddNonConflicting(ai_chapters, a3)
    IN  deduplicate_and_improve(SortByPage(a4))

\* the weights of _calculate_overall_confidence, in tenths
MethodWeight(method) ==
    CASE method = "bookmark" -> 10
      [] method = "font_analysis" -> 8
      [] method = "page_pattern" -> 6
      [] method = "ai_analysis" -> 7
      [] OTHER -> 5

RECURSIVE WeightedSum(_)
WeightedSum(chapters) ==
    IF chapters = <<>> THEN 0
    ELSE Head(chapters).confidence * MethodWeight(Head(chapters).detection_method)
            + WeightedSum(Tail(chapters))

RECURSIVE TotalWeight(_)
TotalWeight(chapters) ==
    IF chapters = <<>> THEN 0
    ELSE MethodWeight(Head(chapters).detection_method) + TotalWeight(Tail(chapters))

\* _calculate_overall_confidence, as the fraction num / den
calculate_overall_confidence(chapters) ==
    IF chapters = <<>> THEN [num |-> 0, den |-> 1]
    ELSE [num |-> WeightedSum(chapters), den |-> TotalWeight(chapters)]

method_names == <<"bookmark", "font_analysis", "page_pattern", "ai_analysis">>

\* _get_used_methods: method_list is the name method_names[i], and
\* method_list[i] its character at index i
get_used_methods(method_lists) ==
    LET used == {i \in 1..4 : method_lists[i] # <<>>}
    IN  [j \in 1..Cardinality(used) |->
            LET i == CHOOSE i \in used : Cardinality({k \in used : k < i}) = j - 1
            IN  SubSeq(method_names[i], i, i)]

\* detect_chapters; nothing inside its try block raises, every detector
\* catching its own exceptions
detect_chapters(pdf_doc, has_text, ai_service, font_found, pattern_found, ai_found) ==
    LET bookmark_chapters == extract_bookmarks(pdf_doc)
        font_chapters == detect_by_font_analysis(has_text, font_found)
        pattern_chapters == detect_by_page_patterns(has_text, pattern_found)
        ai_chapters == IF ai_service
                       THEN detect_by_ai_analysis(ai_service, has_text, ai_found)
                       ELSE <<>>
        combined_chapters ==
            combine_detection_methods(bookmark_chapters, font_chapters,
                                      pattern_chapters, ai_chapters)
    IN  [chapters |-> combined_chapters,
         total_confidence |-> calculate_overall_confidence(combined_chapters),
         detection_methods_used |->
             get_used_methods(<<bookmark_chapters, font_chapters,
                                pattern_chapters, ai_chapters>>),
         metadata |-> [bookmark_count |-> Len(bookmark_chapters),
                       font_detected_count |-> Len(font_chapters),
                       pattern_detected_count |-> Len(pattern_chapters),
                       ai_detected_count |-> Len(ai_chapters)]]

(***************************************************************************)
(* SpecChapters: detect_chapters applied to bounded inputs, called         *)
(* directly and by _stage_3_structure_recognition.                         *)
(***************************************************************************)
TitleBigStart == <<"chapter", "1", "the", "big", "start">>
TitleBigStartAgain == <<"chapter", "1", "the", "big", "start", "again">>
TitleIntro == <<"intro">>
TitlePageIntro == <<"page", "3:", "intro">>
TitleMap == <<"map">>

\* the entries of an outline: [level, title, page], pages counted from 1
TocItems ==
    { [level |-> 1, title |-> t, page |-> p] :
        t \in {TitleBigStart, TitleBigStartAgain, TitleIntro}, p \in {1, 2, 4} } \cup
    { [level |-> 3, title |-> TitleMap, page |-> 1],
      [level |-> 1, title |-> <<>>, page |-> 1],
      [level |-> 1, title |-> <<"12">>, page |-> 1] }

\* an outline of five entries with distinct titles, three pages apart
FiveEntryOutline ==
    << [level |-> 1, title |-> TitleBigStart, page |-> 1],
       [level |-> 1, title |-> TitleIntro, page |-> 4],
       [level |-> 1, title |-> <<"part", "1", "origins">>, page |-> 7],
       [level |-> 1, title |-> <<"part", "2", "growth">>, page |-> 10],
       [level |-> 2, title |-> <<"section", "12", "ending">>, page |-> 13] >>

OutlineLens == {0, 1, 2}

PdfDoc(toc) == [get_toc_raises |-> FALSE, toc |-> toc]

PdfDocs ==
    {None, [get_toc_raises |-> TRUE, toc |-> <<>>], PdfDoc(FiveEntryOutline)} \cup
    { PdfDoc(t) : t \in UNION { [1..n -> TocItems] : n \in OutlineLens } }

Candidate(method, confidence, title, page_num) ==
    [page_num |-> page_num, title |-> title, confidence |-> confidence,
     detection_method |-> method, level |-> 1]

Found(candidates) == [raises |-> FALSE, candidates |-> candidates]
FoundNothing == Found(<<>>)

\* what a detector working on the text runs can do: find nothing, find one
\* heading, or raise
FoundBy(method, confidence, headings) ==
    {[raises |-> TRUE, candidates |-> <<>>], FoundNothing} \cup
    { Found(<< Candidate(method, confidence, h[1], h[2]) >>) : h \in headings }

FontFound ==
    FoundBy("font_analysis", 80,
            {<<TitleBigStart, 0>>, <<TitleBigStart, 3>>, <<TitlePageIntro, 0>>,
             <<TitleIntro, 3>>})
PatternFound ==
    FoundBy("page_pattern", 60,
            {<<TitleBigStart, 0>>, <<TitleBigStart, 3>>, <<TitlePageIntro, 0>>,
             <<TitleIntro, 3>>})
AiFound ==
    FoundBy("ai_analysis", 70, {<<TitleBigStart, 3>>, <<TitleIntro, 0>>})

ChapterInputs ==
    { x \in [fn : {"detect_chapters", "_stage_3_structure_recognition"},
             pdf_doc : PdfDocs, has_text : BOOLEAN, ai_service : BOOLEAN,
             font_found : FontFound, pattern_found : PatternFound,
             ai_found : AiFound] :
        /\ x.fn = "_stage_3_structure_recognition" => x.pdf_doc # None
        /\ ~x.has_text =>
              /\ x.font_found = FoundNothing
              /\ x.pattern_found = FoundNothing
              /\ x.ai_found = FoundNothing
        /\ ~x.ai_service => x.ai_found = FoundNothing }

InitChapters ==
    /\ config = DefaultConfig
    /\ calibre_available = TRUE
    /\ PipeIdle
    /\ SvcIdle
    /\ args \in ChapterInputs
    /\ ret = None

\* ChapterDetector.detect_chapters called with the document
DetectChapters ==
    /\ args # None
    /\ args.fn = "detect_chapters"
    /\ ret = None
    /\ ret' = [value |->
                 detect_chapters(args.pdf_doc, args.has_text, args.ai_service,
                                 args.font_found, args.pattern_found,
                                 args.ai_found)]
    /\ UNCHANGED <<pipeVars, args, svcVars>>

\* _stage_3_structure_recognition: detect_chapters(None, text_blocks, ...)
StructureRecognition ==
    /\ args # None
    /\ args.fn = "_stage_3_structure_recognition"
    /\ ret = None
    /\ ret' = [value |->
                 structure_recognition(
                     detect_chapters(None, args.has_text, args.ai_service,
                                     args.font_found, args.pattern_found,
                                     args.ai_found))]
    /\ UNCHANGED <<pipeVars, args, svcVars>>

NextChapters ==
    \/ DetectChapters
    \/ StructureRecognition

SpecChapters == InitChapters /\ [][NextChapters]_vars

ChaptersReturned ==
    ret # None /\ args.fn \in {"detect_chapters", "_stage_3_structure_recognition"}

\* C13: in every ChapterStructure detect_chapters answers, each boundary's
\* page is greater than the page of the boundary before it.
C13_BoundariesStrictlySorted ==
    ChaptersReturned =>
        \A i \in DOMAIN ret.value.chapters : \A j \in DOMAIN ret.value.chapters :
            i < j => ret.value.chapters[i].page_num < ret.value.chapters[j].page_num

\* C14: in every ChapterStructure detect_chapters answers, no two boundaries
\* are within 2 pages of each other with titles of word overlap 80% or more,
\* whichever detectors they came from.
C14_NoNearDuplicates ==
    ChaptersReturned =>
        \A i \in DOMAIN ret.value.chapters : \A j \in DOMAIN ret.value.chapters :
            i # j =>
                ~( /\ Abs(ret.value.chapters[i].page_num
                            - ret.value.chapters[j].page_num) <= 2
                   /\ titles_similar(ret.value.chapters[i].title,
                                     ret.value.chapters[j].title, 8) )

\* the candidates the four detectors answered in the call under check
CandidatesOf(a) ==
    LET doc == IF a.fn = "detect_chapters" THEN a.pdf_doc ELSE None
    IN  Range(extract_bookmarks(doc))
        \cup Range(detect_by_font_analysis(a.has_text, a.font_found))
        \cup Range(detect_by_page_patterns(a.has_text, a.pattern_found))
        \cup Range(detect_by_ai_analysis(a.ai_service, a.has_text, a.ai_found))

\* outline > font analysis > page-start pattern > oracle
Priority(method) ==
    CASE method = "bookmark" -> 1
      [] method = "font_analysis" -> 2
      [] method = "page_pattern" -> 3
      [] method = "ai_analysis" -> 4

Conflicting(a, b) ==
    /\ Abs(a.page_num - b.page_num) <= 2
    /\ titles_similar(a.title, b.title, 8)

\* the candidate is a boundary of the final structure
Survives(c, structure) ==
    \E i \in DOMAIN structure.chapters :
        /\ structure.chapters[i].page_num = c.page_num
        /\ structure.chapters[i].detection_method = c.detection_method
        /\ structure.chapters[i].title = clean_chapter_title(c.title)

\* C15: candidates are merged by the priority outline > font analysis >
\* page-start pattern > oracle: a candidate that conflicts with a surviving
\* candidate of higher priority is not in the final structure, and of two
\* candidates of different priority that are duplicates (conflicting, or
\* with titles the de-duplication treats as the same) of which one survives,
\* the survivor is the one of higher priority.
C15_HigherPrioritySurvives ==
    ChaptersReturned =>
        \A a \in CandidatesOf(args) : \A b \in CandidatesOf(args) :
            Priority(a.detection_method) < Priority(b.detection_method) =>
                /\ (Conflicting(a, b) /\ Survives(a, ret.value))
                      => ~Survives(b, ret.value)
                /\ (Conflicting(a, b) \/ titles_similar(a.title, b.title, 9))
                      => ~(Survives(b, ret.value) /\ ~Survives(a, ret.value))

\* C16: for a document with an outline of five entries with valid, distinct
\* titles and text on its pages, the ChapterStructure obtained, by a direct
\* call and by the structure-recognition stage of the pipeline alike, has
\* exactly 5 boundaries, all of the outline method, and a combined
\* confidence of at least 80.
C16_FiveEntryOutline ==
    (ChaptersReturned /\ args.pdf_doc = PdfDoc(FiveEntryOutline) /\ args.has_text) =>
        /\ Len(ret.value.chapters) = 5
        /\ \A i \in DOMAIN ret.value.chapters :
              ret.value.chapters[i].detection_method = "bookmark"
        /\ ret.value.total_confidence.num >= 80 * ret.value.total_confidence.den

\* an exception was raised inside the call under check
ErrorOccurred(a) ==
    \/ a.fn = "_stage_3_structure_recognition"
    \/ a.pdf_doc = None
    \/ a.pdf_doc # None /\ a.pdf_doc.get_toc_raises
    \/ a.has_text /\ a.font_found.raises
    \/ a.has_text /\ a.pattern_found.raises
    \/ a.has_text /\ a.ai_service /\ a.ai_found.raises

\* C17: detect_chapters always answers a ChapterStructure; when nothing was
\* detected it has no boundaries and combined confidence 0, and an error
\* that occurred (no document object, a detector or the oracle raising) is
\* recorded in its metadata.
C17_NeverFailsAndRecordsError ==
    ChaptersReturned =>
        /\ ret.value # None
        /\ DOMAIN ret.value =
              {"chapters", "total_confidence", "detection_methods_used", "metadata"}
        /\ CandidatesOf(args) = {} =>
              /\ ret.value.chapters = <<>>
              /\ ret.value.total_confidence.num = 0
              /\ ErrorOccurred(args) => "error" \in DOMAIN ret.value.metadata

\* C18: detection_methods_used holds exactly the names of the methods whose
\* detector answered at least one candidate in the call.
C18_MethodsUsedAreTheContributors ==
    ChaptersReturned =>
        Range(ret.value.detection_methods_used) =
            {c.detection_method : c \in CandidatesOf(args)}

(***************************************************************************)
(* SpecEpub: EpubGenerator.create_chapters_from_text_blocks applied to     *)
(* bounded inputs.                                                         *)
(***************************************************************************)
BoundaryLens == {0, 1, 2, 3}
BoundaryPages == {0, 1, 2, 3}
TextPages == {1, 2, 3}

\* chapter boundaries in any order; the title tells them apart
BoundaryLists ==
    UNION { { [i \in 1..n |-> [page_num |-> f[i], title |-> i, level |-> 1]] :
                f \in [1..n -> BoundaryPages] } : n \in BoundaryLens }

EpubInputs ==
    [fn : {"create_chapters_from_text_blocks"},
     text_blocks : UNION { { MkBlocks(b) : b \in BlockSeqs(n) } : n \in TextPages },
     chapter_boundaries : BoundaryLists]

InitEpub ==
    /\ config = DefaultConfig
    /\ calibre_available = TRUE
    /\ PipeIdle
    /\ SvcIdle
    /\ args \in EpubInputs
    /\ ret = None

CreateChapters ==
    /\ args # None
    /\ args.fn = "create_chapters_from_text_blocks"
    /\ ret = None
    /\ ret' = [value |->
                 create_chapters_from_text_blocks(args.text_blocks,
                                                  args.chapter_boundaries)]
    /\ UNCHANGED <<pipeVars, args, svcVars>>

NextEpub == CreateChapters

SpecEpub == InitEpub /\ [][NextEpub]_vars

\* the text of the runs whose page lies in first..last
TextOfPages(blocks, first, last) ==
    JoinBlocks(SelectSeq(blocks, LAMBDA b : first <= b.page_num /\ b.page_num <= last))

\* C19: with no boundaries create_chapters_from_text_blocks emits exactly one
\* chapter holding all text runs; with boundaries it emits one chapter per
\* boundary, in page order, holding the runs of the pages from the
\* boundary's page up to the page before the next boundary's page, and up to
\* the last page for the last boundary; for every input, boundaries sharing
\* a page and documents without text runs included.
C19_ChaptersFromTextBlocks ==
    (ret # None /\ args.fn = "create_chapters_from_text_blocks") =>
        LET chapters == ret.value.chapters
            bounds == args.chapter_boundaries
            last_page == IF args.text_blocks = <<>> THEN -1
                         ELSE MaxOf(PagesOf(args.text_blocks))
        IN  /\ ~ret.value.raised
            /\ bounds = <<>> =>
                  /\ Len(chapters) = 1
                  /\ chapters[1].content = JoinBlocks(args.text_blocks)
            /\ bounds # <<>> =>
                  /\ Len(chapters) = Len(bounds)
                  /\ {<<chapters[i].title, chapters[i].page_num>> : i \in DOMAIN chapters}
                        = {<<bounds[i].title, bounds[i].page_num>> : i \in DOMAIN bounds}
                  /\ \A i \in DOMAIN chapters :
                        /\ i < Len(chapters) =>
                              /\ chapters[i].page_num <= chapters[i + 1].page_num
                              /\ chapters[i].content =
                                    TextOfPages(args.text_blocks, chapters[i].page_num,
                                                chapters[i + 1].page_num - 1)
                        /\ i = Len(chapters) =>
                              chapters[i].content =
                                  TextOfPages(args.text_blocks, chapters[i].page_num,
                                              last_page)

(***************************************************************************)
(* SpecImage: _determine_optimal_format over bounded images.               *)
(***************************************************************************)
ImageModes == {"RGB", "RGBA", "L", "LA"}
ImageFormats == {"png", "jpeg", "tiff"}
ImageWidths == {100, 500, 501, 800}
ImageHeights == {100, 500, 501, 600}
ColourCounts == {2, 16, 17, 100, 101, 150, 256, 257}

\* JPEG data has no alpha channel, and a greyscale image at most 256 levels
ImageInputs ==
    { x \in [fn : {"_determine_optimal_format"},
             original_format : ImageFormats,
             image : [mode : ImageModes, width : ImageWidths,
                      height : ImageHeights, ncolors : ColourCounts]] :
        /\ x.original_format = "jpeg" => x.image.mode \in {"RGB", "L"}
        /\ x.image.mode \in {"L", "LA"} => x.image.ncolors <= 256 }

InitImage ==
    /\ config = DefaultConfig
    /\ calibre_available = TRUE
    /\ PipeIdle
    /\ SvcIdle
    /\ args \in ImageInputs
    /\ ret = None

DetermineOptimalFormat ==
    /\ args # None
    /\ args.fn = "_determine_optimal_format"
    /\ ret = None
    /\ ret' = [value |-> determine_optimal_format(args.image, args.original_format)]
    /\ UNCHANGED <<pipeVars, args, svcVars>>

NextImage == DetermineOptimalFormat

SpecImage == InitImage /\ [][NextImage]_vars

\* C20: the target encoding is PNG when the source has alpha transparency;
\* otherwise JPEG when it is photographic (more than 500px in either
\* dimension, or more than 100 colours); otherwise PNG when it is
\* diagrammatic (at most 500px in both dimensions and at most 16 colours);
\* otherwise JPEG.  An 800x600 image with 150 colours is encoded as JPEG.
C20_TargetEncoding ==
    (ret # None /\ args.fn = "_determine_optimal_format") =>
        LET image == args.image
            alpha == image.mode \in {"RGBA", "LA"}
            photographic ==
                image.width > 500 \/ image.height > 500 \/ image.ncolors > 100
            diagrammatic ==
                image.width <= 500 /\ image.height <= 500 /\ image.ncolors <= 16
        IN  /\ ret.value = IF alpha THEN "png"
                           ELSE IF photographic THEN "jpeg"
                           ELSE IF diagrammatic THEN "png"
                           ELSE "jpeg"
            /\ (~alpha /\ image.width = 800 /\ image.height = 600
                  /\ image.ncolors = 150) => ret.value = "jpeg"

(***************************************************************************)
(* SpecProcessor: the ImageProcessor of one ConversionPipeline over the    *)
(* conversions that run through it.  The pipeline builds the processor     *)
(* once, in its constructor (conversion_pipeline.py:75), and stage 2 of    *)
(* every conversion calls process_images on it                             *)
(* (conversion_pipeline.py:255).  A PDF image carries what Image.open      *)
(* makes of its data: a picture, or None when the data cannot be read.     *)
(* Text associations and alt texts depend on the call's arguments only     *)
(* and are left out.                                                       *)
(***************************************************************************)
InitProcessor ==
    /\ config = DefaultConfig
    /\ calibre_available = TRUE
    /\ PipeIdle
    /\ SvcIdle
    /\ args = None
    /\ ret = None

\* stage 2 of one more conversion through the same pipeline
ProcessImages(pdf_images) ==
    /\ image_processor.image_counter + Len(pdf_images) <= MaxImageCounter
    /\ LET out == process_images(image_processor, pdf_images, "standard")
       IN  /\ image_processor' = out.processor
           /\ ret' = [fn |-> "process_images", value |-> out.value]
    /\ args' = [fn |-> "process_images", pdf_images |-> pdf_images]
    /\ UNCHANGED <<pipeVars, batchVars, cleanupVars, wsVars>>

\* the statistics asked for after a conversion's images were processed
GetImageStatistics ==
    /\ args # None
    /\ args.fn = "process_images"
    /\ ret.fn = "process_images"
    /\ ret' = [fn |-> "get_image_statistics",
               value |-> get_image_statistics(image_processor)]
    /\ UNCHANGED <<pipeVars, args, svcVars>>

NextProcessor ==
    \/ \E pdf_images \in PdfImageLists : ProcessImages(pdf_images)
    \/ GetImageStatistics

SpecProcessor == InitProcessor /\ [][NextProcessor]_vars

\* what the conversion whose images are args.pdf_images gets from a
\* processor no other conversion has used
AloneOnFreshProcessor ==
    process_images(NewImageProcessor, args.pdf_images, "standard")

\* C21: no mutable state crosses conversions: the processed images a
\* conversion gets (their ids included) and the image statistics read after
\* it are those the same conversion gets alone on a fresh pipeline, however
\* many conversions ran through the pipeline before.
C21_ConversionsAreIndependent ==
    (args # None /\ args.fn = "process_images") =>
        /\ ret.fn = "process_images" =>
              ret.value = AloneOnFreshProcessor.value
        /\ ret.fn = "get_image_statistics" =>
              ret.value = get_image_statistics(AloneOnFreshProcessor.processor)

(***************************************************************************)
(* SpecBatch: services/batch_conversion_service.py.  The service runs on   *)
(* one asyncio event loop, so the code between two awaits is one step.     *)
(* A _process_batch_tasks coroutine holds its own semaphore and one        *)
(* wrapper per task; a wrapper is "scheduled" until it holds the           *)
(* semaphore, "converting" while it awaits convert_file, then "done".      *)
(* asyncio runs the wrappers, and wakes the waiters of a semaphore, in     *)
(* the order of the task list.  cleanup_completed_batches is left out.     *)
(***************************************************************************)
max_concurrent_conversions == 3
MaxFiles == 4
MaxStartCalls == 2

\* BatchTask and BatchJob as create_batch_job builds them
BatchTask == [status |-> "pending"]
BatchJob(n) ==
    [tasks |-> [i \in 1..n |-> BatchTask], total_files |-> n,
     completed_files |-> 0, failed_files |-> 0, status |-> "pending"]

\* the files of all batches of the service
FilesOf(batch_id) ==
    IF active_batches[batch_id] = None THEN 0 ELSE active_batches[batch_id].total_files
RECURSIVE SumFiles(_)
SumFiles(ids) ==
    IF ids = {} THEN 0
    ELSE LET b == CHOOSE x \in ids : TRUE IN FilesOf(b) + SumFiles(ids \ {b})
MaxTotalFiles == MaxFiles + 2

\* create_batch_job for a list of n files, 1 <= n <= 50; batch_id is the
\* fresh uuid, which no caller could name before
CreateBatchJob(batch_id, n) ==
    /\ active_batches[batch_id] = None
    /\ start_results[batch_id].raised = 0
    /\ SumFiles(BatchIds) + n <= MaxTotalFiles
    /\ active_batches' = [active_batches EXCEPT ![batch_id] = BatchJob(n)]
    /\ UNCHANGED <<pipeVars, fnVars, image_processor, cleanupVars, wsVars, batch_progress,
                   coroutines, start_results>>

\* the coroutine asyncio.create_task schedules at line 140
NewCoroutine == [pc |-> "spawned", semaphore |-> 0, at |-> <<>>]

\* a start that does not look at the status of the batch
StartWithoutStatusTest(batch_id) ==
    /\ start_results[batch_id].started + start_results[batch_id].raised < MaxStartCalls
    /\ IF active_batches[batch_id] = None
       THEN /\ start_results' = [start_results EXCEPT ![batch_id].raised = @ + 1]
            /\ UNCHANGED <<active_batches, batch_progress, coroutines>>
       ELSE /\ active_batches' = [active_batches EXCEPT ![batch_id].status = "processing"]
            /\ batch_progress' = [batch_progress EXCEPT ![batch_id] = start_task]
            /\ coroutines' = [coroutines EXCEPT ![batch_id] = Append(@, NewCoroutine)]
            /\ start_results' = [start_results EXCEPT ![batch_id].started = @ + 1]
    /\ UNCHANGED <<pipeVars, fnVars, image_processor, cleanupVars, wsVars>>

\* start_batch_conversion: no await between the test of the status and
\* its assignment
StartBatchConversion(batch_id) ==
    /\ start_results[batch_id].started + start_results[batch_id].raised < MaxStartCalls
    /\ IF active_batches[batch_id] = None
       THEN /\ start_results' = [start_results EXCEPT ![batch_id].raised = @ + 1]
            /\ UNCHANGED <<active_batches, batch_progress, coroutines>>
       ELSE IF active_batches[batch_id].status # "pending"
       THEN /\ start_results' = [start_results EXCEPT ![batch_id].raised = @ + 1]
            /\ UNCHANGED <<active_batches, batch_progress, coroutines>>
       ELSE /\ active_batches' = [active_batches EXCEPT ![batch_id].status = "processing"]
            /\ batch_progress' = [batch_progress EXCEPT ![batch_id] = start_task]
            /\ coroutines' = [coroutines EXCEPT ![batch_id] = Append(@, NewCoroutine)]
            /\ start_results' = [start_results EXCEPT ![batch_id].started = @ + 1]
    /\ UNCHANGED <<pipeVars, fnVars, image_processor, cleanupVars, wsVars>>

\* _process_batch_tasks, lines 161-172: the semaphore, then gather
\* schedules one wrapper per task
ProcessBatchTasks(batch_id, k) ==
    /\ k \in DOMAIN coroutines[batch_id]
    /\ coroutines[batch_id][k].pc = "spawned"
    /\ coroutines' = [coroutines EXCEPT ![batch_id][k] =
           [pc |-> "gather", semaphore |-> max_concurrent_conversions,
            at |-> [i \in DOMAIN active_batches[batch_id].tasks |-> "scheduled"]]]
    /\ UNCHANGED <<pipeVars, fnVars, image_processor, cleanupVars, wsVars, active_batches,
                   batch_progress, start_results>>

\* the first wrapper that does not hold the semaphore yet
NextScheduled(c) ==
    IF \E i \in DOMAIN c.at : c.at[i] = "scheduled"
    THEN CHOOSE i \in DOMAIN c.at :
             /\ c.at[i] = "scheduled"
             /\ \A j \in DOMAIN c.at : c.at[j] = "scheduled" => i <= j
    ELSE 0

\* a wrapper that does not wait for the semaphore
AcquireWithoutWaiting(batch_id, k) ==
    /\ k \in DOMAIN coroutines[batch_id]
    /\ LET c == coroutines[batch_id][k]
           i == NextScheduled(c)
       IN  /\ c.pc = "gather"
           /\ i # 0
           /\ coroutines' = [coroutines EXCEPT ![batch_id][k].semaphore = @ - 1,
                                               ![batch_id][k].at[i] = "converting"]
           /\ active_batches' =
                  [active_batches EXCEPT ![batch_id].tasks[i].status = "processing"]
    /\ UNCHANGED <<pipeVars, fnVars, image_processor, cleanupVars, wsVars, batch_progress, start_results>>

\* lines 165-166 and 208-214: the wrapper takes the semaphore and
\* _process_single_task runs up to the await of convert_file
AcquireAndConvert(batch_id, k) ==
    /\ k \in DOMAIN coroutines[batch_id]
    /\ LET c == coroutines[batch_id][k]
           i == NextScheduled(c)
       IN  /\ c.pc = "gather"
           /\ i # 0
           /\ c.semaphore > 0
           /\ coroutines' = [coroutines EXCEPT ![batch_id][k].semaphore = @ - 1,
                                               ![batch_id][k].at[i] = "converting"]
           /\ active_batches' =
                  [active_batches EXCEPT ![batch_id].tasks[i].status = "processing"]
    /\ UNCHANGED <<pipeVars, fnVars, image_processor, cleanupVars, wsVars, batch_progress, start_results>>

\* int((completed_files + failed_files) / total_files * 100)
progress_percent_of(job) ==
    ((job.completed_files + job.failed_files) * 100) \div job.total_files

\* an ended conversion counted as completed and then again as failed
ConversionEndsCountedTwice(batch_id, k, i, returned) ==
    /\ k \in DOMAIN coroutines[batch_id]
    /\ i \in DOMAIN coroutines[batch_id][k].at
    /\ coroutines[batch_id][k].at[i] = "converting"
    /\ LET job == active_batches[batch_id]
           after == IF returned
                    THEN [job EXCEPT !.tasks[i].status = "failed",
                                     !.completed_files = @ + 1,
                                     !.failed_files = @ + 1]
                    ELSE [job EXCEPT !.tasks[i].status = "failed",
                                     !.failed_files = @ + 1]
       IN  /\ active_batches' = [active_batches EXCEPT ![batch_id] = after]
           /\ batch_progress' = [batch_progress EXCEPT ![batch_id] =
                  update_progress_to(@, after.completed_files + after.failed_files,
                                     progress_percent_of(after))]
    /\ coroutines' = [coroutines EXCEPT ![batch_id][k].semaphore = @ + 1,
                                        ![batch_id][k].at[i] = "done"]
    /\ UNCHANGED <<pipeVars, fnVars, image_processor, cleanupVars, wsVars, start_results>>

\* lines 218-236 when convert_file returns and 238-258 when it raises,
\* then the wrapper leaves the semaphore
ConversionEnds(batch_id, k, i, returned) ==
    /\ k \in DOMAIN coroutines[batch_id]
    /\ i \in DOMAIN coroutines[batch_id][k].at
    /\ coroutines[batch_id][k].at[i] = "converting"
    /\ LET job == active_batches[batch_id]
           after == IF returned
                    THEN [job EXCEPT !.tasks[i].status = "completed",
                                     !.completed_files = @ + 1]
                    ELSE [job EXCEPT !.tasks[i].status = "failed",
                                     !.failed_files = @ + 1]
       IN  /\ active_batches' = [active_batches EXCEPT ![batch_id] = after]
           /\ batch_progress' = [batch_progress EXCEPT ![batch_id] =
                  update_progress_to(@, after.completed_files + after.failed_files,
                                     progress_percent_of(after))]
    /\ coroutines' = [coroutines EXCEPT ![batch_id][k].semaphore = @ + 1,
                                        ![batch_id][k].at[i] = "done"]
    /\ UNCHANGED <<pipeVars, fnVars, image_processor, cleanupVars, wsVars, start_results>>

\* lines 174-191: gather has every result
BatchFinishes(batch_id, k) ==
    /\ k \in DOMAIN coroutines[batch_id]
    /\ LET c == coroutines[batch_id][k]
       IN  /\ c.pc = "gather"
           /\ \A i \in DOMAIN c.at : c.at[i] = "done"
    /\ active_batches' = [active_batches EXCEPT ![batch_id].status =
           IF active_batches[batch_id].failed_files = 0
           THEN "completed" ELSE "completed_with_errors"]
    /\ batch_progress' = [batch_progress EXCEPT ![batch_id] = complete_task(@)]
    /\ coroutines' = [coroutines EXCEPT ![batch_id][k].pc = "finished"]
    /\ UNCHANGED <<pipeVars, fnVars, image_processor, cleanupVars, wsVars, start_results>>

InitBatch ==
    /\ config = DefaultConfig
    /\ calibre_available = TRUE
    /\ PipeIdle
    /\ SvcIdle
    /\ args = None
    /\ ret = None

\* the steps of the service for the batches named ids
NextBatchOf(ids) ==
    \/ \E batch_id \in ids, n \in 1..MaxFiles : CreateBatchJob(batch_id, n)
    \/ \E batch_id \in ids : StartBatchConversion(batch_id)
    \/ \E batch_id \in ids, k \in 1..MaxStartCalls : ProcessBatchTasks(batch_id, k)
    \/ \E batch_id \in ids, k \in 1..MaxStartCalls : AcquireAndConvert(batch_id, k)
    \/ \E batch_id \in ids, k \in 1..MaxStartCalls, i \in 1..MaxFiles,
          returned \in BOOLEAN : ConversionEnds(batch_id, k, i, returned)
    \/ \E batch_id \in ids, k \in 1..MaxStartCalls : BatchFinishes(batch_id, k)

NextBatch == NextBatchOf(BatchIds)

SpecBatch == InitBatch /\ [][NextBatch]_vars

\* the conversions of a batch that are running
Converting(batch_id) ==
    { <<k, i>> \in (1..MaxStartCalls) \X (1..MaxFiles) :
        /\ k \in DOMAIN coroutines[batch_id]
        /\ i \in DOMAIN coroutines[batch_id][k].at
        /\ coroutines[batch_id][k].at[i] = "converting" }

\* C22: while a batch is processed, the number of its file conversions
\* running at the same time never exceeds max_concurrent_conversions (3),
\* whatever the number of files and the order in which conversions end.
C22_BatchConcurrencyBounded ==
    \A batch_id \in BatchIds :
        Cardinality(Converting(batch_id)) <= max_concurrent_conversions

\* three conversions of a batch of more files run while another file waits
C22_Witness ==
    \E batch_id \in BatchIds :
        /\ Cardinality(Converting(batch_id)) = max_concurrent_conversions
        /\ \E i \in DOMAIN coroutines[batch_id][1].at :
               coroutines[batch_id][1].at[i] = "scheduled"

\* the coroutine that processed a batch has run to its end
Finished(batch_id) ==
    \E k \in DOMAIN coroutines[batch_id] : coroutines[batch_id][k].pc = "finished"

\* C23: when the processing of a batch finishes, the batch status is
\* 'completed' if at least one file was converted, also when other files
\* failed, and 'failed' if every file failed.
C23_StatusAfterProcessing ==
    \A batch_id \in BatchIds :
        Finished(batch_id) =>
            LET job == active_batches[batch_id]
            IN  job.status = IF job.completed_files > 0 THEN "completed" ELSE "failed"

\* SpecOneBatchFair: the event loop runs every coroutine that can run, and a
\* conversion ends (convert_file bounds its work with CONVERSION_TIMEOUT)
FairBatch ==
    \A batch_id \in BatchIds :
        /\ WF_vars(\E k \in 1..MaxStartCalls : ProcessBatchTasks(batch_id, k))
        /\ WF_vars(\E k \in 1..MaxStartCalls : AcquireAndConvert(batch_id, k))
        /\ WF_vars(\E k \in 1..MaxStartCalls, i \in 1..MaxFiles, returned \in BOOLEAN :
                      ConversionEnds(batch_id, k, i, returned))
        /\ WF_vars(\E k \in 1..MaxStartCalls : BatchFinishes(batch_id, k))

\* one batch of the service followed to its end
NextOneBatch == NextBatchOf({"b1"})
SpecOneBatchFair == InitBatch /\ [][NextOneBatch]_vars /\ FairBatch

TerminalStatuses == {"completed", "completed_with_errors", "failed"}
Terminal(batch_id) ==
    /\ active_batches[batch_id] # None
    /\ active_batches[batch_id].status \in TerminalStatuses
TasksWith(job, status) == {i \in DOMAIN job.tasks : job.tasks[i].status = status}

\* the counters of a batch count every ended conversion once
CountedOnce(job) ==
    /\ job.completed_files = Cardinality(TasksWith(job, "completed"))
    /\ job.failed_files = Cardinality(TasksWith(job, "failed"))
    /\ job.completed_files + job.failed_files <= job.total_files

\* C24: every started batch eventually reaches a terminal status; at that
\* point every task is 'completed' or 'failed', each task was counted
\* exactly once (completed_files is the number of conversions that returned,
\* failed_files the number that raised) and completed_files + failed_files
\* = total_files; before that the sum never exceeds total_files.
C24_BatchTerminates ==
    \A batch_id \in BatchIds :
        /\ [](active_batches[batch_id] # None =>
                LET job == active_batches[batch_id]
                IN  /\ CountedOnce(job)
                    /\ job.status \in TerminalStatuses =>
                          /\ \A i \in DOMAIN job.tasks :
                                 job.tasks[i].status \in {"completed", "failed"}
                          /\ job.completed_files + job.failed_files = job.total_files)
        /\ (start_results[batch_id].started > 0) ~> Terminal(batch_id)

\* a batch of several files ended with conversions that returned and
\* conversions that raised
C24_Witness ==
    \E batch_id \in BatchIds :
        /\ Finished(batch_id)
        /\ active_batches[batch_id].completed_files > 0
        /\ active_batches[batch_id].failed_files > 0
        /\ active_batches[batch_id].total_files > max_concurrent_conversions

\* how far a batch status is on the way pending, processing, terminal
StatusRank(status) ==
    CASE status = "pending" -> 0
      [] status = "processing" -> 1
      [] status \in TerminalStatuses -> 2

StartCalls(batch_id) ==
    start_results[batch_id].started + start_results[batch_id].raised

\* C29: a batch job is processed at most once: of the start_batch_conversion
\* calls for a batch, exactly one succeeds and spawns the processing
\* coroutine and every other one raises ValidationError; the batch status
\* moves from 'pending' to 'processing' to a terminal status and never back.
C29_ProcessedAtMostOnce ==
    /\ [](\A batch_id \in BatchIds :
            /\ start_results[batch_id].started <= 1
            /\ Len(coroutines[batch_id]) = start_results[batch_id].started
            /\ (active_batches[batch_id] # None /\ StartCalls(batch_id) > 0) =>
                   /\ start_results[batch_id].started = 1
                   /\ active_batches[batch_id].status # "pending")
    /\ [][\A batch_id \in BatchIds :
            active_batches[batch_id] # None =>
                StatusRank(active_batches'[batch_id].status)
                    >= StatusRank(active_batches[batch_id].status)]_vars

\* a second start call for a batch that is being processed was refused
C29_Witness ==
    \E batch_id \in BatchIds :
        /\ active_batches[batch_id] # None
        /\ start_results[batch_id].started = 1
        /\ start_results[batch_id].raised > 0
        /\ active_batches[batch_id].status = "processing"

\* C30: across the whole service the number of file conversions running at
\* the same time never exceeds max_concurrent_conversions (3), also when
\* several batches are processed concurrently.
C30_ServiceConcurrencyBounded ==
    Cardinality({ <<batch_id, running>> \in BatchIds \X ((1..MaxStartCalls) \X (1..MaxFiles)) :
                    running \in Converting(batch_id) })
        <= max_concurrent_conversions

(***************************************************************************)
(* SpecCleanup: utils/file_cleanup.py, FileCleanupManager.start and stop   *)
(* and the _cleanup_loop tasks, on one asyncio event loop.  start() has no *)
(* await; stop() is suspended at 'await self._cleanup_task' until the task *)
(* it cancelled has ended, and other callers can run meanwhile.  A task is *)
(* "created" until the loop first runs it, "sleeping" while it awaits in   *)
(* the loop body, and "ended" when the coroutine has returned.             *)
(***************************************************************************)
MaxLoopTasks == 3

\* asyncio.create_task(self._cleanup_loop())
NewLoopTask == [at |-> "created", cancel_requested |-> FALSE]

\* a start that does not look at _running
StartWithoutRunningTest ==
    /\ Len(loop_tasks) < MaxLoopTasks
    /\ loop_tasks' = Append(loop_tasks, NewLoopTask)
    /\ cleanup_manager' = [running |-> TRUE, cleanup_task |-> Len(loop_tasks) + 1]
    /\ UNCHANGED <<pipeVars, fnVars, image_processor, batchVars, wsVars, pending_stops>>

\* start()
Start ==
    /\ IF cleanup_manager.running
       THEN UNCHANGED <<cleanup_manager, loop_tasks>>
       ELSE /\ Len(loop_tasks) < MaxLoopTasks
            /\ loop_tasks' = Append(loop_tasks, NewLoopTask)
            /\ cleanup_manager' = [running |-> TRUE,
                                   cleanup_task |-> Len(loop_tasks) + 1]
    /\ UNCHANGED <<pipeVars, fnVars, image_processor, batchVars, wsVars, pending_stops>>

\* stop(), lines 63-70: up to the await of the cancelled task
StopBegins ==
    /\ IF ~cleanup_manager.running
       THEN UNCHANGED <<cleanup_manager, loop_tasks, pending_stops>>
       ELSE /\ cleanup_manager' = [cleanup_manager EXCEPT !.running = FALSE]
            /\ IF cleanup_manager.cleanup_task # 0
               THEN /\ loop_tasks' =
                          [loop_tasks EXCEPT ![cleanup_manager.cleanup_task] =
                              IF @.at = "ended" THEN @
                              ELSE [@ EXCEPT !.cancel_requested = TRUE]]
                    /\ pending_stops' = pending_stops \cup {cleanup_manager.cleanup_task}
               ELSE UNCHANGED <<loop_tasks, pending_stops>>
    /\ UNCHANGED <<pipeVars, fnVars, image_processor, batchVars, wsVars>>

\* stop(), lines 70-74: the awaited task has ended
StopReturns(t) ==
    /\ t \in pending_stops
    /\ loop_tasks[t].at = "ended"
    /\ pending_stops' = pending_stops \ {t}
    /\ UNCHANGED <<pipeVars, fnVars, image_processor, batchVars, wsVars, cleanup_manager,
                   loop_tasks>>

\* _cleanup_loop run by the event loop, first or after a sleep: 'while
\* self._running', one cleanup, and the next sleep
LoopRuns(t) ==
    /\ t \in DOMAIN loop_tasks
    /\ loop_tasks[t].at \in {"created", "sleeping"}
    /\ ~loop_tasks[t].cancel_requested
    /\ loop_tasks' = [loop_tasks EXCEPT ![t].at =
           IF cleanup_manager.running THEN "sleeping" ELSE "ended"]
    /\ UNCHANGED <<pipeVars, fnVars, image_processor, batchVars, wsVars, cleanup_manager,
                   pending_stops>>

\* the cancellation reaches the task: before its first run, or as the
\* CancelledError of lines 82-83
LoopCancelled(t) ==
    /\ t \in DOMAIN loop_tasks
    /\ loop_tasks[t].at # "ended"
    /\ loop_tasks[t].cancel_requested
    /\ loop_tasks' = [loop_tasks EXCEPT ![t].at = "ended"]
    /\ UNCHANGED <<pipeVars, fnVars, image_processor, batchVars, wsVars, cleanup_manager,
                   pending_stops>>

InitCleanup ==
    /\ config = DefaultConfig
    /\ calibre_available = TRUE
    /\ PipeIdle
    /\ SvcIdle
    /\ args = None
    /\ ret = None

NextCleanup ==
    \/ Start
    \/ StopBegins
    \/ \E t \in 1..MaxLoopTasks : StopReturns(t)
    \/ \E t \in 1..MaxLoopTasks : LoopRuns(t)
    \/ \E t \in 1..MaxLoopTasks : LoopCancelled(t)

SpecCleanup == InitCleanup /\ [][NextCleanup]_vars

\* the cleanup loops that have not ended
LiveLoops == {t \in DOMAIN loop_tasks : loop_tasks[t].at # "ended"}

C26_TrackerAgreesWithResult ==
    (pc = "done" /\ Called) =>
        /\ tracker # None
        /\ IF result.success
           THEN tracker.status = "completed" /\ tracker.progress_percent = 100
           ELSE tracker.status = "failed"

(***************************************************************************)
(* The text runs in the chapters of create_chapters_from_text_blocks       *)
(* (SpecEpub).                                                             *)
(***************************************************************************)
\* the places of the emitted chapters that hold the text run
PlacesOf(chapters, block) ==
    { <<c, j>> \in (DOMAIN chapters) \X (1..Len(args.text_blocks)) :
        /\ j \in DOMAIN chapters[c].content
        /\ chapters[c].content[j] = Piece(block) }

\* C27: create_chapters_from_text_blocks neither loses nor duplicates text:
\* for any list of text runs and any non-empty list of boundaries, every
\* text run of the document is in the content of exactly one emitted
\* chapter, the runs on pages before the first boundary's page included.
C27_NoTextLostOrDuplicated ==
    (ret # None /\ args.fn = "create_chapters_from_text_blocks"
        /\ args.chapter_boundaries # <<>>) =>
        \A i \in DOMAIN args.text_blocks :
            Cardinality(PlacesOf(ret.value.chapters, args.text_blocks[i])) = 1

(***************************************************************************)
(* SpecWebsocket: api/websocket.py, ConnectionManager.  Every method is    *)
(* one step.  websocket_endpoint connects its websocket, subscribes it     *)
(* when the client asks, and disconnects it when receive_text raises;      *)
(* a websocket object serves one connection.  A send to a websocket may    *)
(* fail at any time.                                                       *)
(***************************************************************************)
WebSockets == {"ws1", "ws2"}
TaskIds == {"task1", "task2"}

\* disconnect(websocket)
disconnect(manager, websocket) ==
    LET subs == manager.task_subscriptions
        kept == {t \in DOMAIN subs : subs[t] \ {websocket} # {}}
    IN  [active_connections |-> manager.active_connections \ {websocket},
         task_subscriptions |-> [t \in kept |-> subs[t] \ {websocket}]]

\* for ws in disconnected: self.disconnect(ws)
RECURSIVE disconnect_all(_, _)
disconnect_all(manager, disconnected) ==
    IF disconnected = {} THEN manager
    ELSE LET ws == CHOOSE x \in disconnected : TRUE
         IN  disconnect_all(disconnect(manager, ws), disconnected \ {ws})

\* subscribe_to_task(websocket, task_id)
subscribe_to_task(manager, websocket, task_id) ==
    LET subs == manager.task_subscriptions
        had == IF task_id \in DOMAIN subs THEN subs[task_id] ELSE {}
    IN  [manager EXCEPT !.task_subscriptions =
            [t \in DOMAIN subs \cup {task_id} |->
                IF t = task_id THEN had \cup {websocket} ELSE subs[t]]]

\* send_progress_update(task_id, progress_data); disconnected are the
\* subscribers the send to which raised
send_progress_update(manager, task_id, disconnected) ==
    IF task_id \notin DOMAIN manager.task_subscriptions THEN manager
    ELSE [active_connections |-> manager.active_connections \ disconnected,
          task_subscriptions |->
              [manager.task_subscriptions EXCEPT ![task_id] = @ \ disconnected]]

\* broadcast(message); disconnected are the connections the send to which
\* raised
broadcast(manager, disconnected) == disconnect_all(manager, disconnected)

\* websocket_endpoint, line 87: connect(websocket)
Connect(websocket) ==
    /\ websocket \notin endpoints
    /\ websocket \notin connection_manager.active_connections
    /\ \A t \in DOMAIN connection_manager.task_subscriptions :
           websocket \notin connection_manager.task_subscriptions[t]
    /\ connection_manager' =
           [connection_manager EXCEPT !.active_connections = @ \cup {websocket}]
    /\ endpoints' = endpoints \cup {websocket}
    /\ UNCHANGED <<pipeVars, fnVars, image_processor, batchVars, cleanupVars>>

\* websocket_endpoint, lines 96-99: a subscribe message of the client
SubscribeToTask(websocket, task_id) ==
    /\ websocket \in endpoints
    /\ connection_manager' = subscribe_to_task(connection_manager, websocket, task_id)
    /\ UNCHANGED <<pipeVars, fnVars, image_processor, batchVars, cleanupVars, endpoints>>

\* notify_progress_update: the sends to the websockets in failing raise
SendProgressUpdate(task_id, failing) ==
    /\ task_id \in DOMAIN connection_manager.task_subscriptions
    /\ failing \subseteq connection_manager.task_subscriptions[task_id]
    /\ connection_manager' = send_progress_update(connection_manager, task_id, failing)
    /\ UNCHANGED <<pipeVars, fnVars, image_processor, batchVars, cleanupVars, endpoints>>

Broadcast(failing) ==
    /\ failing \subseteq connection_manager.active_connections
    /\ connection_manager' = broadcast(connection_manager, failing)
    /\ UNCHANGED <<pipeVars, fnVars, image_processor, batchVars, cleanupVars, endpoints>>

\* websocket_endpoint, lines 122-126: receive_text raised, the endpoint ends
Disconnect(websocket) ==
    /\ websocket \in endpoints
    /\ connection_manager' = disconnect(connection_manager, websocket)
    /\ endpoints' = endpoints \ {websocket}
    /\ UNCHANGED <<pipeVars, fnVars, image_processor, batchVars, cleanupVars>>

InitWebsocket ==
    /\ config = DefaultConfig
    /\ calibre_available = TRUE
    /\ PipeIdle
    /\ SvcIdle
    /\ args = None
    /\ ret = None

NextWebsocket ==
    \/ \E websocket \in WebSockets : Connect(websocket)
    \/ \E websocket \in WebSockets, task_id \in TaskIds :
          SubscribeToTask(websocket, task_id)
    \/ \E task_id \in TaskIds, failing \in SUBSET WebSockets :
          SendProgressUpdate(task_id, failing)
    \/ \E failing \in SUBSET WebSockets : Broadcast(failing)
    \/ \E websocket \in WebSockets : Disconnect(websocket)

SpecWebsocket == InitWebsocket /\ [][NextWebsocket]_vars

\* the websockets subscribed to some task
Subscribers ==
    UNION { connection_manager.task_subscriptions[t] :
              t \in DOMAIN connection_manager.task_subscriptions }

\* C28: after any sequence of connect, subscribe_to_task,
\* send_progress_update (with any sends failing), broadcast and disconnect,
\* every websocket in some task's subscriber set is in active_connections;
\* a connection removed because a send to it failed (its endpoint is still
\* in its loop) is subscribed to no task.
C28_SubscribersAreConnected ==
    /\ Subscribers \subseteq connection_manager.active_connections
    /\ \A websocket \in endpoints \ connection_manager.active_connections :
           websocket \notin Subscribers

====
